---- MODULE Spec2Model ----
(***************************************************************************)
(* Model of PDFProcessor (src/pdf_processor.py): the pattern-based         *)
(* extraction of coordinates, dates and site names from a document text.   *)
(*                                                                         *)
(* A text is a sequence of characters; a character is a one-character      *)
(* string, except the non-ASCII ones, which are named: "DEG" is the degree *)
(* sign, "ENDASH" the en dash, "PRIME" / "DPRIME" the prime and double     *)
(* prime.  Positions are 1-based; a match is [s, e) with e exclusive, so   *)
(* Python's match.start() is s-1 and match.end() is e-1.                   *)
(*                                                                         *)
(* A float is modelled exactly as an integer number of 1/Unit degrees:     *)
(* Unit = 9000000 = lcm(3600, 10^6) represents every decimal with at most  *)
(* six fractional digits and every whole or 1/100 arc second.              *)
(***************************************************************************)
EXTENDS Integers, Sequences, FiniteSets, TLC

\* ------------------------------------------------------------------------
\* Characters and character classes (Python re: \d, \s, \w, IGNORECASE)
\* ------------------------------------------------------------------------
DigitSeq == <<"0","1","2","3","4","5","6","7","8","9">>
Digit == {DigitSeq[i] : i \in 1..10}
Space == {" ", "\n", "\t"}
AlphaLower == <<"a","b","c","d","e","f","g","h","i","j","k","l","m",
                "n","o","p","q","r","s","t","u","v","w","x","y","z">>
AlphaUpper == <<"A","B","C","D","E","F","G","H","I","J","K","L","M",
                "N","O","P","Q","R","S","T","U","V","W","X","Y","Z">>
Lower == {AlphaLower[i] : i \in 1..26}
Upper == {AlphaUpper[i] : i \in 1..26}
Alpha == Lower \cup Upper
Word == Alpha \cup Digit \cup {"_"}

ToUpper(c) == IF c \in Lower
              THEN AlphaUpper[CHOOSE i \in 1..26 : AlphaLower[i] = c]
              ELSE c

\* the character at position i, or the end-of-text mark outside the text
At(t, i) == IF i >= 1 /\ i <= Len(t) THEN t[i] ELSE "EOT"

\* number of consecutive characters of class cls from position i on
RECURSIVE RunIn(_, _, _)
RunIn(t, i, cls) == IF At(t, i) \in cls THEN 1 + RunIn(t, i + 1, cls) ELSE 0

\* number of characters from position i on before the first character c
RECURSIVE RunUntil(_, _, _)
RunUntil(t, i, c) == IF i > Len(t) \/ t[i] = c THEN 0 ELSE 1 + RunUntil(t, i + 1, c)

\* the position after the longest run of cls characters starting at i
SkipIn(t, i, cls) == i + RunIn(t, i, cls)

\* the position after an optional character of cls at i
SkipOne(t, i, cls) == IF At(t, i) \in cls THEN i + 1 ELSE i

\* the least position of a nonempty set of positions
Leftmost(I) == CHOOSE i \in I : \A j \in I : i <= j

\* the text has word w (upper case) at position i, ignoring case
StartsWithCI(t, i, w) == \A k \in 1..Len(w) : ToUpper(At(t, i + k - 1)) = w[k]

\* the text has word w at position i, case-sensitively
StartsWith(t, i, w) == \A k \in 1..Len(w) : At(t, i + k - 1) = w[k]

\* \b at position i: exactly one of the characters before and at i is a word character
WordBoundary(t, i) == (At(t, i - 1) \in Word) # (At(t, i) \in Word)

Slice(t, a, b) == IF a > b THEN <<>> ELSE SubSeq(t, a, b)

Min(a, b) == IF a <= b THEN a ELSE b
Max(a, b) == IF a >= b THEN a ELSE b

\* ------------------------------------------------------------------------
\* Numeric conversion: int(), float(), round(x, 6)
\* ------------------------------------------------------------------------
Unit == 9000000
\* every parsed magnitude of SatDeg degrees or more is stored as SatDeg
\* degrees: such a value is outside both legal ranges whatever it is
SatDeg == 200

DigitVal(c) == (CHOOSE i \in 1..10 : DigitSeq[i] = c) - 1

RECURSIVE DigitsVal(_)
DigitsVal(ds) == IF ds = <<>> THEN 0
                 ELSE 10 * DigitsVal(SubSeq(ds, 1, Len(ds) - 1)) + DigitVal(ds[Len(ds)])

RECURSIVE Pow10(_)
Pow10(n) == IF n = 0 THEN 1 ELSE 10 * Pow10(n - 1)

\* int("1998")
ParseInt(ds) == DigitsVal(ds)

\* the value of a digit string, or cap if the value is cap or more
RECURSIVE CappedVal(_, _)
CappedVal(ds, cap) ==
    IF ds = <<>> THEN 0
    ELSE Min(cap, 10 * CappedVal(SubSeq(ds, 1, Len(ds) - 1), cap) + DigitVal(ds[Len(ds)]))

\* float("-40.7128"), float("12."), float("77"): the value in 1/Unit degrees
ParseFloat(cs) ==
    LET neg  == cs # <<>> /\ cs[1] = "-"
        body == IF neg THEN Tail(cs) ELSE cs
        n    == RunIn(body, 1, Digit)
        ip   == CappedVal(SubSeq(body, 1, n), SatDeg)
        fr   == IF n < Len(body) THEN SubSeq(body, n + 2, Len(body)) ELSE <<>>
        f    == Min(Len(fr), 6)
        mag  == IF ip >= SatDeg THEN SatDeg * Unit
                ELSE ip * Unit + DigitsVal(SubSeq(fr, 1, f)) * (Unit \div Pow10(f))
    IN IF neg THEN 0 - mag ELSE mag

\* round(x, 6) as a whole number of micro-degrees (nearest; a tie cannot
\* occur, Unit / 10^6 = 9 being odd)
Round6(v) == LET q == v \div 9
                 r == v % 9
             IN IF r >= 5 THEN q + 1 ELSE q

\* InBounds with the upper longitude bound forgotten
InBoundsNoLonMax(lat, lon) == /\ 0 - 90 * Unit <= lat /\ lat <= 90 * Unit
                              /\ 0 - 180 * Unit <= lon

\* -90 <= lat <= 90 and -180 <= lon <= 180
InBounds(lat, lon) == /\ 0 - 90 * Unit <= lat /\ lat <= 90 * Unit
                      /\ 0 - 180 * Unit <= lon /\ lon <= 180 * Unit

CoordKey(lat, lon) == <<Round6(lat), Round6(lon)>>

NoMatch == [ok |-> FALSE]

\* ------------------------------------------------------------------------
\* extract_coordinates, pattern 1: decimal degrees with N/S and E/W
\*   (?P<lat>-?\d{1,2}\.?\d*)\s*DEG?\s*[,\s]*(?P<lat_dir>[NS])[,\s]*
\*   (?P<lon>-?\d{1,3}\.?\d*)\s*DEG?\s*[,\s]*(?P<lon_dir>[EW])     IGNORECASE
\* ------------------------------------------------------------------------
SepChars == Space \cup {",", "DEG"}

\* \d{1,maxInt}\.?\d* from position s, taken greedily: the position after
\* the number, 0 when no digit is at s.  Whatever follows the number in the
\* pattern starts with neither a digit nor a dot, so no shorter number is
\* ever the one that matches.
DecNumEnd(t, s, maxInt) ==
    LET End(d) == IF d = s THEN 0
                  ELSE IF d <= s + maxInt /\ At(t, d) = "."
                       THEN SkipIn(t, d + 1, Digit)
                       ELSE d
    IN End(SkipIn(t, s, Digit))

\* the characters of [a, b) form \s*DEG?\s*[,\s]*
Sep1OK(t, a, b) ==
    /\ Cardinality({j \in a..(b - 1) : t[j] = "DEG"}) <= 1
    /\ \A j \in a..(b - 1) : t[j] = "DEG" => \A k \in a..(j - 1) : t[k] \in Space

decimal_with_dirs(t, i) ==
    LET Groups(e1, p, q, e2, p2) ==
            IF e1 = 0 THEN NoMatch
            ELSE IF ~(ToUpper(At(t, p)) \in {"N", "S"} /\ Sep1OK(t, e1, p)) THEN NoMatch
            ELSE IF e2 = 0 THEN NoMatch
            ELSE IF ~(ToUpper(At(t, p2)) \in {"E", "W"} /\ Sep1OK(t, e2, p2)) THEN NoMatch
            ELSE [ok |-> TRUE, s |-> i, e |-> p2 + 1, family |-> 1,
                  lat |-> Slice(t, i, e1 - 1), lat_dir |-> t[p],
                  lon |-> Slice(t, q, e2 - 1), lon_dir |-> t[p2]]
        e1 == DecNumEnd(t, SkipOne(t, i, {"-"}), 2)
        p  == SkipIn(t, e1, SepChars)
        q  == SkipIn(t, p + 1, Space \cup {","})
        e2 == DecNumEnd(t, SkipOne(t, q, {"-"}), 3)
        p2 == SkipIn(t, e2, SepChars)
    IN Groups(e1, p, q, e2, p2)

\* decimal_with_dirs.finditer(text) from position i on: the leftmost match,
\* then the matches after its end
RECURSIVE decimal_with_dirs_finditer(_, _)
decimal_with_dirs_finditer(t, i) ==
    LET Yield(m) == <<m>> \o decimal_with_dirs_finditer(t, m.e)
        From(I) == IF I = {} THEN <<>> ELSE Yield(decimal_with_dirs(t, Leftmost(I)))
    IN From({j \in i..Len(t) : decimal_with_dirs(t, j).ok})

\* ------------------------------------------------------------------------
\* extract_coordinates, pattern 2: degrees, minutes, seconds
\*   (?:N|S|North|South)?\s*(deg)DEG\s*(min)['PRIME]\s*(sec)["DPRIME]?\s*([NS])
\*   [,\s]+ (?:E|W|East|West)?\s*(deg)DEG\s*(min)['PRIME]\s*(sec)["DPRIME]?\s*([EW])
\* ------------------------------------------------------------------------
\* \s*(\d{1,maxDeg})DEG\s*(\d{1,2})['PRIME]\s*(\d{1,2}(?:\.\d+)?)["DPRIME]?\s*([dirs])
DmsHalf(t, j, maxDeg, dirs) ==
    LET Groups(a, ae, b, be, c, ce, se, p) ==
            IF ~(ae - a >= 1 /\ ae - a <= maxDeg /\ At(t, ae) = "DEG") THEN NoMatch
            ELSE IF ~(be - b >= 1 /\ be - b <= 2 /\ At(t, be) \in {"'", "PRIME"})
                 THEN NoMatch
            ELSE IF ~(ce - c >= 1 /\ ce - c <= 2) THEN NoMatch
            ELSE IF ToUpper(At(t, p)) \notin dirs THEN NoMatch
            ELSE [ok |-> TRUE, e |-> p + 1, deg |-> Slice(t, a, ae - 1),
                  min |-> Slice(t, b, be - 1), sec |-> Slice(t, c, se - 1),
                  dir |-> t[p]]
        \* (?:\.\d+)? after the digits that end at ce
        FracEnd(ce, fe) == IF At(t, ce) = "." /\ fe > ce + 1 THEN fe ELSE ce
        a  == SkipIn(t, j, Space)
        ae == SkipIn(t, a, Digit)
        b  == SkipIn(t, ae + 1, Space)
        be == SkipIn(t, b, Digit)
        c  == SkipIn(t, be + 1, Space)
        ce == SkipIn(t, c, Digit)
        se == FracEnd(ce, SkipIn(t, ce + 1, Digit))
        p  == SkipIn(t, SkipOne(t, se, {"\"", "DPRIME"}), Space)
    IN Groups(a, ae, b, be, c, ce, se, p)

\* the position after the optional leading word, one of a single letter of
\* `letters' or one of the two `words' (upper case)
DmsPrefixEnd(t, i, letters, words) ==
    IF \E w \in words : StartsWithCI(t, i, w)
    THEN i + Len(CHOOSE w \in words : StartsWithCI(t, i, w))
    ELSE IF ToUpper(At(t, i)) \in letters THEN i + 1 ELSE i

NorthSouth == {<<"N","O","R","T","H">>, <<"S","O","U","T","H">>}
EastWest == {<<"E","A","S","T">>, <<"W","E","S","T">>}

dms_pattern(t, i) ==
    LET Groups(la, lo) ==
            IF ~lo.ok THEN NoMatch
            ELSE [ok |-> TRUE, s |-> i, e |-> lo.e, family |-> 2,
                  lat_deg |-> la.deg, lat_min |-> la.min, lat_sec |-> la.sec,
                  lat_dir |-> la.dir,
                  lon_deg |-> lo.deg, lon_min |-> lo.min, lon_sec |-> lo.sec,
                  lon_dir |-> lo.dir]
        \* [,\s]+ from the end of the latitude half to r, then the longitude half
        Second(la, r) ==
            IF r = la.e THEN NoMatch
            ELSE Groups(la, DmsHalf(t, DmsPrefixEnd(t, r, {"E", "W"}, EastWest),
                                    3, {"E", "W"}))
        First(la) ==
            IF ~la.ok THEN NoMatch
            ELSE Second(la, SkipIn(t, la.e, Space \cup {","}))
    IN First(DmsHalf(t, DmsPrefixEnd(t, i, {"N", "S"}, NorthSouth), 2, {"N", "S"}))

RECURSIVE dms_pattern_finditer(_, _)
dms_pattern_finditer(t, i) ==
    LET Yield(m) == <<m>> \o dms_pattern_finditer(t, m.e)
        From(I) == IF I = {} THEN <<>> ELSE Yield(dms_pattern(t, Leftmost(I)))
    IN From({j \in i..Len(t) : dms_pattern(t, j).ok})

\* ------------------------------------------------------------------------
\* extract_coordinates, pattern 3: decimal pairs without direction
\*   (?P<lat>-?\d{1,2}\.\d{2,6})[,\s]+(?P<lon>-?\d{1,3}\.\d{2,6})
\* ------------------------------------------------------------------------
simple_decimal(t, i) ==
    LET \* s: after the sign, d: after the integer digits, e: after the
        \* fraction digits, of the latitude (1) and the longitude (2)
        Groups(s1, d1, e1, q, s2, d2, e2) ==
            IF ~(d1 - s1 >= 1 /\ d1 - s1 <= 2 /\ At(t, d1) = ".") THEN NoMatch
            ELSE IF ~(e1 - d1 - 1 >= 2 /\ e1 - d1 - 1 <= 6 /\ q > e1) THEN NoMatch
            ELSE IF ~(d2 - s2 >= 1 /\ d2 - s2 <= 3 /\ At(t, d2) = "."
                      /\ e2 - d2 - 1 >= 2) THEN NoMatch
            ELSE [ok |-> TRUE, s |-> i, e |-> Min(e2, d2 + 1 + 6), family |-> 3,
                  lat |-> Slice(t, i, e1 - 1),
                  lon |-> Slice(t, q, Min(e2, d2 + 1 + 6) - 1)]
        s1 == SkipOne(t, i, {"-"})
        d1 == SkipIn(t, s1, Digit)
        e1 == SkipIn(t, d1 + 1, Digit)
        q  == SkipIn(t, e1, Space \cup {","})
        s2 == SkipOne(t, q, {"-"})
        d2 == SkipIn(t, s2, Digit)
        e2 == SkipIn(t, d2 + 1, Digit)
    IN Groups(s1, d1, e1, q, s2, d2, e2)

RECURSIVE simple_decimal_finditer(_, _)
simple_decimal_finditer(t, i) ==
    LET Yield(m) == <<m>> \o simple_decimal_finditer(t, m.e)
        From(I) == IF I = {} THEN <<>> ELSE Yield(simple_decimal(t, Leftmost(I)))
    IN From({j \in i..Len(t) : simple_decimal(t, j).ok})

\* ------------------------------------------------------------------------
\* extract_coordinates, pattern 4: UTM (detected, never converted)
\*   UTM\s+Zone\s+(\d{1,2})([NS])\s+(\d{6,7})\s+(\d{7,8})          IGNORECASE
\* ------------------------------------------------------------------------
utm_pattern(t, i) ==
    LET \* a: Zone, b: the zone number and bz its end, c: the easting and ce
        \* its end, d: the northing and de its end
        Groups(a, b, bz, c, ce, d, de) ==
            IF ~(StartsWithCI(t, i, <<"U","T","M">>) /\ a > i + 3) THEN NoMatch
            ELSE IF ~(StartsWithCI(t, a, <<"Z","O","N","E">>) /\ b > a + 4) THEN NoMatch
            ELSE IF ~(bz - b >= 1 /\ bz - b <= 2 /\ ToUpper(At(t, bz)) \in {"N", "S"})
                 THEN NoMatch
            ELSE IF ~(c > bz + 1 /\ ce - c >= 6 /\ ce - c <= 7 /\ d > ce) THEN NoMatch
            ELSE IF de - d < 7 THEN NoMatch
            ELSE [ok |-> TRUE, s |-> i, e |-> Min(de, d + 8), family |-> 4]
        a  == SkipIn(t, i + 3, Space)
        b  == SkipIn(t, a + 4, Space)
        bz == SkipIn(t, b, Digit)
        c  == SkipIn(t, bz + 1, Space)
        ce == SkipIn(t, c, Digit)
        d  == SkipIn(t, ce, Space)
        de == SkipIn(t, d, Digit)
    IN Groups(a, b, bz, c, ce, d, de)

RECURSIVE utm_pattern_finditer(_, _)
utm_pattern_finditer(t, i) ==
    LET Yield(m) == <<m>> \o utm_pattern_finditer(t, m.e)
        From(I) == IF I = {} THEN <<>> ELSE Yield(utm_pattern(t, Leftmost(I)))
    IN From({j \in i..Len(t) : utm_pattern(t, j).ok})

\* ------------------------------------------------------------------------
\* str.strip(), str.replace("\n", " "), the context snippet
\* ------------------------------------------------------------------------
RECURSIVE LStrip(_)
LStrip(cs) == IF cs # <<>> /\ cs[1] \in Space THEN LStrip(Tail(cs)) ELSE cs

RECURSIVE RStrip(_)
RStrip(cs) == IF cs # <<>> /\ cs[Len(cs)] \in Space
              THEN RStrip(SubSeq(cs, 1, Len(cs) - 1)) ELSE cs

Strip(cs) == RStrip(LStrip(cs))

ReplaceNewlines(cs) == [k \in 1..Len(cs) |-> IF cs[k] = "\n" THEN " " ELSE cs[k]]
\* ContextSnippet with the newlines left in
ContextSnippetKeepsNewlines(t, m, w) ==
    Strip(Slice(t, Max(0, m.s - 1 - w) + 1, Min(Len(t), m.e - 1 + w)))

\* text[max(0, match.start() - w) : min(len(text), match.end() + w)]
\*     .replace("\n", " ").strip()
ContextSnippet(t, m, w) ==
    Strip(ReplaceNewlines(Slice(t, Max(0, m.s - 1 - w) + 1, Min(Len(t), m.e - 1 + w))))

\* ------------------------------------------------------------------------
\* Site patterns (extract_sites and _extract_site_name_from_context)
\* ------------------------------------------------------------------------
SITE == <<"S","I","T","E">>
TRENCH == <<"T","R","E","N","C","H">>
LOCUS == <<"L","O","C","U","S">>
MOUND == <<"M","O","U","N","D">>

NameChars == Alpha \cup Space \cup {"-"}

\* the least k >= 2 such that the k characters from c on are name
\* characters and a terminator or the end of the text follows; 0 if none.
\* This is the lazy [A-Za-z][A-Za-z\s\-]+? before (?:[term]|$).
RECURSIVE LazyNameLen(_, _, _, _)
LazyNameLen(t, c, k, term) ==
    IF At(t, c + k - 1) \notin NameChars THEN 0
    ELSE IF At(t, c + k) \in term \cup {"EOT"} THEN k
    ELSE LazyNameLen(t, c, k + 1, term)

\* Site\s+(?P<num>\d+)[:\s]+(?P<name>[A-Za-z][A-Za-z\s\-]+?)(?:[term]|$)
\* IGNORECASE; the site name is f"Site {num}: {name.strip()}"
SitePattern1(t, i, term) ==
    LET \* a: the number and ae its end, c: the name and k its length
        Groups(a, ae, c, k) ==
            IF ~(StartsWithCI(t, i, SITE) /\ a > i + 4 /\ ae > a /\ c > ae) THEN NoMatch
            ELSE IF ~(At(t, c) \in Alpha /\ k > 0) THEN NoMatch
            ELSE [ok |-> TRUE, s |-> i,
                  e |-> IF At(t, c + k) = "EOT" THEN c + k ELSE c + k + 1,
                  site_type |-> "Site",
                  site_name |-> <<"S","i","t","e"," ">> \o Slice(t, a, ae - 1)
                                \o <<":"," ">> \o Strip(Slice(t, c, c + k - 1))]
        a  == SkipIn(t, i + 4, Space)
        ae == SkipIn(t, a, Digit)
        c  == SkipIn(t, ae, Space \cup {":"})
    IN Groups(a, ae, c, LazyNameLen(t, c, 2, term))

\* extract_sites: terminator [,\s\.] or $ (MULTILINE)
site_pattern1(t, i) == SitePattern1(t, i, Space \cup {",", "."})

\* _extract_site_name_from_context: terminator [,\s] or $
context_pattern1(t, i) == SitePattern1(t, i, Space \cup {","})

\* ([A-Z]{2,4}[-]?\d{1,4})\s*\(([^)]+)\)   IGNORECASE
\* the site name is f"{group 1} ({group 2})"
site_pattern2(t, i) ==
    LET \* le: after the letters, a: the digits and ae their end, c: the
        \* opening parenthesis, k: the length of the text in parentheses
        Groups(le, a, ae, c, k) ==
            IF ~(le - i >= 2 /\ le - i <= 4 /\ ae - a >= 1 /\ ae - a <= 4
                 /\ At(t, c) = "(") THEN NoMatch
            ELSE IF ~(k >= 1 /\ At(t, c + 1 + k) = ")") THEN NoMatch
            ELSE [ok |-> TRUE, s |-> i, e |-> c + k + 2, site_type |-> "Site",
                  site_name |-> Slice(t, i, ae - 1) \o <<" ", "(">>
                                \o Slice(t, c + 1, c + k) \o <<")">>]
        le == SkipIn(t, i, Alpha)
        a  == SkipOne(t, le, {"-"})
        ae == SkipIn(t, a, Digit)
        c  == SkipIn(t, ae, Space)
    IN Groups(le, a, ae, c, RunUntil(t, c + 1, ")"))

\* word\s+([A-Z]?[-]?\d+)   IGNORECASE: the end of the identifier, 0 if none
UnitIdEnd(t, i, word) ==
    LET End(a, c, ce) ==
            IF StartsWithCI(t, i, word) /\ a > i + Len(word) /\ ce > c THEN ce ELSE 0
        a == SkipIn(t, i + Len(word), Space)
        c == SkipOne(t, SkipOne(t, a, Alpha), {"-"})
    IN End(a, c, SkipIn(t, c, Digit))

\* Trench\s+([A-Z]?[-]?\d+) and Locus\s+([A-Z]?[-]?\d+) of extract_sites:
\* the site name is f"{pattern_type} {group 1}"
unit_pattern(t, i, word, label) ==
    LET Groups(a, e) ==
            IF e = 0 THEN NoMatch
            ELSE [ok |-> TRUE, s |-> i, e |-> e, site_type |-> label[1],
                  site_name |-> label[2] \o <<" ">> \o Slice(t, a, e - 1)]
    IN Groups(SkipIn(t, i + Len(word), Space), UnitIdEnd(t, i, word))

trench_pattern(t, i) == unit_pattern(t, i, TRENCH, <<"Trench", <<"T","r","e","n","c","h">>>>)
locus_pattern(t, i) == unit_pattern(t, i, LOCUS, <<"Locus", <<"L","o","c","u","s">>>>)

\* Mound\s+([A-Z])\s+at\s+Site\s+(\d+)   IGNORECASE
\* the site name is f"Mound {group 1} at Site {group 2}"
mound_pattern(t, i) ==
    LET \* a: the letter, b: at, c: Site, d: the number and de its end
        Groups(a, b, c, d, de) ==
            IF ~(StartsWithCI(t, i, MOUND) /\ a > i + 5 /\ At(t, a) \in Alpha)
            THEN NoMatch
            ELSE IF ~(b > a + 1 /\ StartsWithCI(t, b, <<"A","T">>) /\ c > b + 2)
                 THEN NoMatch
            ELSE IF ~(StartsWithCI(t, c, SITE) /\ d > c + 4 /\ de > d) THEN NoMatch
            ELSE [ok |-> TRUE, s |-> i, e |-> de, site_type |-> "Mound",
                  site_name |-> <<"M","o","u","n","d"," ">> \o <<t[a]>>
                                \o <<" ","a","t"," ","S","i","t","e"," ">>
                                \o Slice(t, d, de - 1)]
        a == SkipIn(t, i + 5, Space)
        b == SkipIn(t, a + 1, Space)
        c == SkipIn(t, b + 2, Space)
        d == SkipIn(t, c + 4, Space)
    IN Groups(a, b, c, d, SkipIn(t, d, Digit))

\* (Trench|Locus|Mound)\s+([A-Z]?[-]?\d+) of _extract_site_name_from_context:
\* the name is f"{group 1} {group 2}", group 1 as written in the text
context_pattern3(t, i) ==
    LET Groups(w, a, e) ==
            IF e = 0 THEN NoMatch
            ELSE [ok |-> TRUE, s |-> i, e |-> e,
                  site_name |-> Slice(t, i, i + Len(w) - 1) \o <<" ">>
                                \o Slice(t, a, e - 1)]
        Word1(w) == Groups(w, SkipIn(t, i + Len(w), Space), UnitIdEnd(t, i, w))
    IN Word1(IF StartsWithCI(t, i, TRENCH) THEN TRENCH
             ELSE IF StartsWithCI(t, i, LOCUS) THEN LOCUS ELSE MOUND)

\* pattern.finditer(text) of the five patterns of extract_sites
RECURSIVE site_pattern1_finditer(_, _)
site_pattern1_finditer(t, i) ==
    LET Yield(m) == <<m>> \o site_pattern1_finditer(t, m.e)
        From(I) == IF I = {} THEN <<>> ELSE Yield(site_pattern1(t, Leftmost(I)))
    IN From({j \in i..Len(t) : site_pattern1(t, j).ok})

RECURSIVE site_pattern2_finditer(_, _)
site_pattern2_finditer(t, i) ==
    LET Yield(m) == <<m>> \o site_pattern2_finditer(t, m.e)
        From(I) == IF I = {} THEN <<>> ELSE Yield(site_pattern2(t, Leftmost(I)))
    IN From({j \in i..Len(t) : site_pattern2(t, j).ok})

RECURSIVE trench_finditer(_, _)
trench_finditer(t, i) ==
    LET Yield(m) == <<m>> \o trench_finditer(t, m.e)
        From(I) == IF I = {} THEN <<>> ELSE Yield(trench_pattern(t, Leftmost(I)))
    IN From({j \in i..Len(t) : trench_pattern(t, j).ok})

RECURSIVE locus_finditer(_, _)
locus_finditer(t, i) ==
    LET Yield(m) == <<m>> \o locus_finditer(t, m.e)
        From(I) == IF I = {} THEN <<>> ELSE Yield(locus_pattern(t, Leftmost(I)))
    IN From({j \in i..Len(t) : locus_pattern(t, j).ok})

RECURSIVE mound_finditer(_, _)
mound_finditer(t, i) ==
    LET Yield(m) == <<m>> \o mound_finditer(t, m.e)
        From(I) == IF I = {} THEN <<>> ELSE Yield(mound_pattern(t, Leftmost(I)))
    IN From({j \in i..Len(t) : mound_pattern(t, j).ok})

\* ------------------------------------------------------------------------
\* _extract_site_name_from_context
\* ------------------------------------------------------------------------
\* the value None
None == <<"NONE">>

\* pattern.search(context): the positions where each pattern matches
Pattern1Hits(c) == {i \in 1..Len(c) : context_pattern1(c, i).ok}
Pattern2Hits(c) == {i \in 1..Len(c) : site_pattern2(c, i).ok}
Pattern3Hits(c) == {i \in 1..Len(c) : context_pattern3(c, i).ok}
Pattern4Hits(c) == {i \in 1..Len(c) : mound_pattern(c, i).ok}
\* extract_site_name_from_context returning the match that starts first in
\* the snippet, whatever its pattern
extract_site_name_earliest(c) ==
    LET I == Pattern1Hits(c) \cup Pattern2Hits(c) \cup Pattern3Hits(c)
             \cup Pattern4Hits(c)
        NameAt(i) == IF i \in Pattern1Hits(c) THEN context_pattern1(c, i).site_name
                     ELSE IF i \in Pattern2Hits(c) THEN site_pattern2(c, i).site_name
                     ELSE IF i \in Pattern3Hits(c) THEN context_pattern3(c, i).site_name
                     ELSE mound_pattern(c, i).site_name
    IN IF I = {} THEN None ELSE NameAt(Leftmost(I))

extract_site_name_from_context(c) ==
    LET Search4(I) == IF I # {} THEN mound_pattern(c, Leftmost(I)).site_name
                      ELSE None
        Search3(I) == IF I # {} THEN context_pattern3(c, Leftmost(I)).site_name
                      ELSE Search4(Pattern4Hits(c))
        Search2(I) == IF I # {} THEN site_pattern2(c, Leftmost(I)).site_name
                      ELSE Search3(Pattern3Hits(c))
        Search1(I) == IF I # {} THEN context_pattern1(c, Leftmost(I)).site_name
                      ELSE Search2(Pattern2Hits(c))
    IN Search1(Pattern1Hits(c))

\* ------------------------------------------------------------------------
\* extract_dates: the five patterns
\* ------------------------------------------------------------------------
\* (?:18|19|20)\d{2} at position a
ModernYearAt(t, a) ==
    /\ \/ At(t, a) = "1" /\ At(t, a + 1) \in {"8", "9"}
       \/ At(t, a) = "2" /\ At(t, a + 1) = "0"
    /\ At(t, a + 2) \in Digit
    /\ At(t, a + 3) \in Digit

\* (?:from|between|during)?\s*(?P<start>(?:18|19|20)\d{2})\s*(?:to|-|ENDASH)\s*
\* (?P<end>(?:18|19|20)\d{2})\b                                     IGNORECASE
modern_range_pattern(t, i) ==
    LET \* a: the start year, b: the connective and be its end, c: the end year
        Groups(a, b, be, c) ==
            IF ~(ModernYearAt(t, a) /\ be > b) THEN NoMatch
            ELSE IF ~(ModernYearAt(t, c) /\ At(t, c + 4) \notin Word) THEN NoMatch
            ELSE [ok |-> TRUE, s |-> i, e |-> c + 4, family |-> 1,
                  start |-> Slice(t, a, a + 3), end |-> Slice(t, c, c + 3)]
        \* (?:to|-|ENDASH) at b: the position after it, b if there is none
        ConnEnd(b) == IF StartsWithCI(t, b, <<"T","O">>) THEN b + 2
                      ELSE SkipOne(t, b, {"-", "ENDASH"})
        pe == IF StartsWithCI(t, i, <<"F","R","O","M">>) THEN i + 4
              ELSE IF StartsWithCI(t, i, <<"B","E","T","W","E","E","N">>) THEN i + 7
              ELSE IF StartsWithCI(t, i, <<"D","U","R","I","N","G">>) THEN i + 6
              ELSE i
        a  == SkipIn(t, pe, Space)
        b  == SkipIn(t, a + 4, Space)
        be == ConnEnd(b)
    IN Groups(a, b, be, SkipIn(t, be, Space))

RECURSIVE modern_range_finditer(_, _)
modern_range_finditer(t, i) ==
    LET Yield(m) == <<m>> \o modern_range_finditer(t, m.e)
        From(I) == IF I = {} THEN <<>> ELSE Yield(modern_range_pattern(t, Leftmost(I)))
    IN From({j \in i..Len(t) : modern_range_pattern(t, j).ok})

\* (?:BCE|BC|B\.C\.|B\.C\.E\.) at position c, the alternatives tried in this
\* order: the length matched, 0 if none.  With bounded, \b must follow.
BceSuffixLen(t, c, bounded) ==
    IF StartsWithCI(t, c, <<"B","C","E">>) /\ (bounded => At(t, c + 3) \notin Word) THEN 3
    ELSE IF StartsWithCI(t, c, <<"B","C">>) /\ (bounded => At(t, c + 2) \notin Word) THEN 2
    ELSE IF StartsWithCI(t, c, <<"B",".","C",".">>)
            /\ (bounded => At(t, c + 4) \in Word) THEN 4
    ELSE IF StartsWithCI(t, c, <<"B",".","C",".","E",".">>)
            /\ (bounded => At(t, c + 6) \in Word) THEN 6
    ELSE 0

\* (?P<start>\d{3,4})\s*(?:-|ENDASH)\s*(?P<end>\d{3,4})\s*(?:BCE|BC|B\.C\.|B\.C\.E\.)
bce_range_pattern(t, i) ==
    LET \* ie: after the start year, a: the dash, b: the end year and be its
        \* end, c: the era suffix and sl its length
        Groups(ie, a, b, be, c, sl) ==
            IF ~(ie - i \in {3, 4} /\ At(t, a) \in {"-", "ENDASH"}) THEN NoMatch
            ELSE IF ~(be - b \in {3, 4} /\ sl > 0) THEN NoMatch
            ELSE [ok |-> TRUE, s |-> i, e |-> c + sl, family |-> 2,
                  start |-> Slice(t, i, ie - 1), end |-> Slice(t, b, be - 1)]
        ie == SkipIn(t, i, Digit)
        a  == SkipIn(t, ie, Space)
        b  == SkipIn(t, a + 1, Space)
        be == SkipIn(t, b, Digit)
        c  == SkipIn(t, be, Space)
    IN Groups(ie, a, b, be, c, BceSuffixLen(t, c, FALSE))

RECURSIVE bce_range_finditer(_, _)
bce_range_finditer(t, i) ==
    LET Yield(m) == <<m>> \o bce_range_finditer(t, m.e)
        From(I) == IF I = {} THEN <<>> ELSE Yield(bce_range_pattern(t, Leftmost(I)))
    IN From({j \in i..Len(t) : bce_range_pattern(t, j).ok})

\* \b(?P<year>\d{3,4})\s*(?:BCE|BC|B\.C\.|B\.C\.E\.)\b
bce_single_pattern(t, i) ==
    LET Groups(ie, c, sl) ==
            IF ~(At(t, i - 1) \notin Word /\ ie - i \in {3, 4} /\ sl > 0) THEN NoMatch
            ELSE [ok |-> TRUE, s |-> i, e |-> c + sl, family |-> 3,
                  year |-> Slice(t, i, ie - 1)]
        ie == SkipIn(t, i, Digit)
        c  == SkipIn(t, ie, Space)
    IN Groups(ie, c, BceSuffixLen(t, c, TRUE))

RECURSIVE bce_single_finditer(_, _)
bce_single_finditer(t, i) ==
    LET Yield(m) == <<m>> \o bce_single_finditer(t, m.e)
        From(I) == IF I = {} THEN <<>> ELSE Yield(bce_single_pattern(t, Leftmost(I)))
    IN From({j \in i..Len(t) : bce_single_pattern(t, j).ok})

ContextWords == {<<"S","U","M","M","E","R">>, <<"W","I","N","T","E","R">>,
                 <<"S","P","R","I","N","G">>, <<"F","A","L","L">>,
                 <<"A","U","T","U","M","N">>,
                 <<"E","X","C","A","V","A","T","E","D">>,
                 <<"S","U","R","V","E","Y","E","D">>, <<"D","A","T","E","D">>}

\* the position after the season or fieldwork word at i, 0 if there is none
ContextWordEnd(t, i) ==
    IF \E w \in ContextWords : StartsWithCI(t, i, w)
    THEN i + Len(CHOOSE w \in ContextWords : StartsWithCI(t, i, w))
    ELSE LET Season(f) ==
                 IF StartsWithCI(t, i, <<"F","I","E","L","D">>) /\ f > i + 5
                    /\ StartsWithCI(t, f, <<"S","E","A","S","O","N">>)
                 THEN f + 6 ELSE 0
         IN Season(SkipIn(t, i + 5, Space))

\* (?:summer|winter|spring|fall|autumn|field\s+season|excavated|surveyed|dated)
\* \s+(?:in\s+)?(?P<year>(?:18|19|20)\d{2})\b                       IGNORECASE
contextual_date_pattern(t, i) ==
    LET \* k: after the word, a: after \s+, y: the year
        Groups(k, a, y) ==
            IF ~(k > 0 /\ a > k) THEN NoMatch
            ELSE IF ~(ModernYearAt(t, y) /\ At(t, y + 4) \notin Word) THEN NoMatch
            ELSE [ok |-> TRUE, s |-> i, e |-> y + 4, family |-> 4,
                  year |-> Slice(t, y, y + 3)]
        \* (?:in\s+)? at a: the position after it, a if there is none
        InEnd(a, b) == IF StartsWithCI(t, a, <<"I","N">>) /\ b > a + 2 THEN b ELSE a
        k == ContextWordEnd(t, i)
        a == SkipIn(t, k, Space)
    IN Groups(k, a, InEnd(a, SkipIn(t, a + 2, Space)))

RECURSIVE contextual_date_finditer(_, _)
contextual_date_finditer(t, i) ==
    LET Yield(m) == <<m>> \o contextual_date_finditer(t, m.e)
        From(I) == IF I = {} THEN <<>> ELSE Yield(contextual_date_pattern(t, Leftmost(I)))
    IN From({j \in i..Len(t) : contextual_date_pattern(t, j).ok})

\* \b(?P<year>(?:18|19|20)\d{2})\b
year_pattern(t, i) ==
    IF At(t, i - 1) \notin Word /\ ModernYearAt(t, i) /\ At(t, i + 4) \notin Word
    THEN [ok |-> TRUE, s |-> i, e |-> i + 4, family |-> 5, year |-> Slice(t, i, i + 3)]
    ELSE NoMatch

RECURSIVE year_finditer(_, _)
year_finditer(t, i) ==
    LET Yield(m) == <<m>> \o year_finditer(t, m.e)
        From(I) == IF I = {} THEN <<>> ELSE Yield(year_pattern(t, Leftmost(I)))
    IN From({j \in i..Len(t) : year_pattern(t, j).ok})

\* re.search(r'UTM|Zone|\d{6,}', text[max(0, start - 5):min(len(text), end + 5)])
NearUtmOrDigits(t, m) ==
    LET check == Slice(t, Max(0, m.s - 1 - 5) + 1, Min(Len(t), m.e - 1 + 5))
    IN \E j \in 1..Len(check) :
          \/ StartsWith(check, j, <<"U","T","M">>)
          \/ StartsWith(check, j, <<"Z","o","n","e">>)
          \/ RunIn(check, j, Digit) >= 6

\* str(n) for n >= 0
RECURSIVE IntToChars(_)
IntToChars(n) == IF n < 10 THEN <<DigitSeq[n + 1]>>
                 ELSE IntToChars(n \div 10) \o <<DigitSeq[(n % 10) + 1]>>

\* ------------------------------------------------------------------------
\* Document texts
\* ------------------------------------------------------------------------
\* the mentions a text of coordinates is made of
CoordMentions == <<
    \* 40.7128 S, 74.0060 W
    <<"4","0",".","7","1","2","8"," ","S",","," ","7","4",".","0","0","6","0"," ","W">>,
    \* 40.5DEG N, 74.5DEG E
    <<"4","0",".","5","DEG"," ","N",","," ","7","4",".","5","DEG"," ","E">>,
    \* 40.50, 74.50
    <<"4","0",".","5","0",","," ","7","4",".","5","0">>,
    \* -40.7128, -74.0060
    <<"-","4","0",".","7","1","2","8",","," ","-","7","4",".","0","0","6","0">>,
    \* 95.5 N, 10.5 E
    <<"9","5",".","5"," ","N",","," ","1","0",".","5"," ","E">>,
    \* 40.50, 190.25
    <<"4","0",".","5","0",","," ","1","9","0",".","2","5">>,
    \* 40DEG42'46"N 74DEG0'21"W
    <<"4","0","DEG","4","2","'","4","6","\"","N"," ","7","4","DEG","0","'","2","1","\"","W">>,
    \* 40DEG30'0"N, 74DEG30'0"E
    <<"4","0","DEG","3","0","'","0","\"","N",","," ","7","4","DEG","3","0","'","0","\"","E">>,
    \* 0DEG0'1"N 0DEG0'1"E
    <<"0","DEG","0","'","1","\"","N"," ","0","DEG","0","'","1","\"","E">>,
    \* 0.000278, 0.000278
    <<"0",".","0","0","0","2","7","8",","," ","0",".","0","0","0","2","7","8">>,
    \* 95DEG0'0"S 10DEG0'0"E
    <<"9","5","DEG","0","'","0","\"","S"," ","1","0","DEG","0","'","0","\"","E">>,
    \* UTM Zone 43N 582639 4512345
    <<"U","T","M"," ","Z","o","n","e"," ","4","3","N"," ","5","8","2","6","3","9"," ",
      "4","5","1","2","3","4","5">> >>

\* a text of coordinates has at most MaxCoordMentions mentions
MaxCoordMentions == 2

\* the mentions ms[ix[1]], ms[ix[2]], ... joined by single spaces
RECURSIVE JoinMentions(_, _)
JoinMentions(ms, ix) ==
    IF Len(ix) = 1 THEN ms[ix[1]]
    ELSE ms[ix[1]] \o <<" ">> \o JoinMentions(ms, Tail(ix))

TextsOf(ms, maxLen) ==
    {JoinMentions(ms, ix) : ix \in UNION {[1..n -> 1..Len(ms)] : n \in 1..maxLen}}

CoordTexts == TextsOf(CoordMentions, MaxCoordMentions)

\* the mentions a text of dates is made of
DateMentions == <<
    \* 1998 to 2002
    <<"1","9","9","8"," ","t","o"," ","2","0","0","2">>,
    \* 2002-1998
    <<"2","0","0","2","-","1","9","9","8">>,
    \* 2500-1900 BCE
    <<"2","5","0","0","-","1","9","0","0"," ","B","C","E">>,
    \* 1900ENDASH2500 BC
    <<"1","9","0","0","ENDASH","2","5","0","0"," ","B","C">>,
    \* 2200 BCE
    <<"2","2","0","0"," ","B","C","E">>,
    \* 3000 BC
    <<"3","0","0","0"," ","B","C">>,
    \* summer 2005
    <<"s","u","m","m","e","r"," ","2","0","0","5">>,
    \* excavated in 1999
    <<"e","x","c","a","v","a","t","e","d"," ","i","n"," ","1","9","9","9">>,
    \* 1999
    <<"1","9","9","9">>,
    \* 2005
    <<"2","0","0","5">>,
    \* from 1850 to 1998
    <<"f","r","o","m"," ","1","8","5","0"," ","t","o"," ","1","9","9","8">>,
    \* 2000-1900 BCE
    <<"2","0","0","0","-","1","9","0","0"," ","B","C","E">>,
    \* Zone 2005
    <<"Z","o","n","e"," ","2","0","0","5">> >>

\* a text of dates has at most MaxDateMentions mentions
MaxDateMentions == 2

DateTexts == TextsOf(DateMentions, MaxDateMentions)

\* the mentions a text of sites is made of
SiteMentions == <<
    \* Site 3: Mohenjo-daro
    <<"S","i","t","e"," ","3",":"," ","M","o","h","e","n","j","o","-","d","a","r","o">>,
    \* HST-202 (Hastinapur)
    <<"H","S","T","-","2","0","2"," ","(","H","a","s","t","i","n","a","p","u","r",")">>,
    \* Trench T-5
    <<"T","r","e","n","c","h"," ","T","-","5">>,
    \* Locus L12
    <<"L","o","c","u","s"," ","L","1","2">>,
    \* Mound A at Site 3
    <<"M","o","u","n","d"," ","A"," ","a","t"," ","S","i","t","e"," ","3">>,
    \* Site 3: Mohenjo-daro.
    <<"S","i","t","e"," ","3",":"," ","M","o","h","e","n","j","o","-","d","a","r","o",".">>,
    \* site 3 Ur,
    <<"s","i","t","e"," ","3"," ","U","r",",">>,
    \* trench t-5
    <<"t","r","e","n","c","h"," ","t","-","5">> >>

\* a text of sites has at most MaxSiteMentions mentions
MaxSiteMentions == 2

SiteTexts == TextsOf(SiteMentions, MaxSiteMentions)

\* the survey sentence "Site N: Name is located at LAT, LON. Excavated X-Y BCE."
ScenarioNums == {<<"3">>, <<"1","2">>}
ScenarioNames == {<<"M","o","h","e","n","j","o","-","d","a","r","o">>, <<"U","r">>}
ScenarioPairs == {<<"2","7",".","3","2","5",","," ","6","8",".","1","3","8">>,
                  <<"1","2",".","9","7","1","6",","," ","7","7",".","5","9","4","6">>}
ScenarioRanges == {<<<<"2","5","0","0">>, <<"1","9","0","0">>>>,
                   <<<<"2","5","0","0">>, <<"2","1","0","0">>>>,
                   <<<<"3","0","0","0">>, <<"2","5","0","0">>>>}

SiteLabel(num, name) == <<"S","i","t","e"," ">> \o num \o <<":"," ">> \o name

ScenarioText(num, name, pair, range) ==
    SiteLabel(num, name) \o <<" ","i","s"," ","l","o","c","a","t","e","d"," ","a","t"," ">>
    \o pair \o <<"."," ","E","x","c","a","v","a","t","e","d"," ">>
    \o range[1] \o <<"-">> \o range[2] \o <<" ","B","C","E",".">>

ScenarioTexts ==
    {ScenarioText(num, name, pair, range) :
        num \in ScenarioNums, name \in ScenarioNames,
        pair \in ScenarioPairs, range \in ScenarioRanges}

\* the report "occupied A to B. In Y a trench": a modern range, then a bare year
ModelYears == {1998, 1999, 2002}

RangeThenYear(A, B, Y) ==
    <<"o","c","c","u","p","i","e","d"," ">> \o IntToChars(A) \o <<" ","t","o"," ">>
    \o IntToChars(B) \o <<"."," ","I","n"," ">> \o IntToChars(Y)
    \o <<" ","a"," ","t","r","e","n","c","h">>

RangeThenYearTexts ==
    {RangeThenYear(A, B, Y) : A \in ModelYears, B \in ModelYears, Y \in ModelYears}

\* the two DMS layouts named by the docstring of extract_coordinates
TrailingHemisphereDms == <<"4","0","DEG","4","2","'","4","6","\"","N"," ","7","4","DEG","0","0","'","2","1","\"","W">>
LeadingHemisphereDms == <<"N"," ","3","5","DEG","4","2","'","1","2","\"",","," ","E"," ","1","3","9","DEG","4","6","'","3","5","\"">>
DocstringDmsTexts == {TrailingHemisphereDms, LeadingHemisphereDms}

\* prose in which no pattern of any family matches
ProseTexts == {<<"s","u","r","v","e","y"," ","n","o","t","e","s">>, <<"n","o"," ","f","i","n","d","s"," ","i","n"," ","t","h","e"," ","u","p","p","e","r"," ","f","i","l","l">>}

\* the note "LEAD, near TAIL at ANCHOR": two site mentions before a coordinate
\* pair or a year, the context of which holds both
NoteLeads == {<<"T","r","e","n","c","h"," ","T","-","5">>, <<"L","o","c","u","s"," ","1","2">>, <<"M","o","u","n","d"," ","A"," ","a","t"," ","S","i","t","e"," ","3">>, <<"t","r","e","n","c","h"," ","t","-","5">>}
NoteTails == {<<"S","i","t","e"," ","3",":"," ","U","r",",">>, <<"H","S","T","-","2","0","2"," ","(","H","a","s","t","i","n","a","p","u","r",")">>, <<"M","o","u","n","d"," ","5">>}
NoteAnchors == {<<"4","0",".","5","0",","," ","7","4",".","5","0">>, <<"2","5","0","0"," ","B","C","E">>}

FieldNote(lead, tail, anchor) ==
    lead \o <<","," ","n","e","a","r"," ">> \o tail \o <<" ","a","t"," ">> \o anchor

FieldNoteTexts ==
    {FieldNote(lead, tail, anchor) :
        lead \in NoteLeads, tail \in NoteTails, anchor \in NoteAnchors}

\* a report with matches of every pattern of the three extractors
FieldReport ==
    JoinMentions(SiteMentions, <<1, 2, 3>>) \o <<" ">>
    \o JoinMentions(CoordMentions, <<2, 7, 3, 12>>) \o <<" ">>
    \o JoinMentions(DateMentions, <<1, 3, 5, 7, 9>>)
\* a bare year one space after, and one space before, a UTM easting
EastingYearTexts ==
    {<<"5","8","2","6","3","9"," ","2","0","0","5">>,
     <<"2","0","0","5"," ","5","8","2","6","3","9">>}
\* bare pairs written with more digits than simple_decimal takes: a
\* longitude of seven fractional digits, a latitude of three integer digits
LongDecimalTexts ==
    {<<"1","2",".","9","7",","," ","7","7",".","1","2","3","4","5","6","7">>,
     <<"1","2","3",".","4","5",","," ","7","7",".","5","9">>}
\* pairs with hemisphere letters whose numbers carry a minus sign
SignedHemisphereTexts ==
    {<<"-","4","0",".","5"," ","S",","," ","-","7","4",".","5"," ","W">>,
     <<"-","4","0",".","5"," ","N",","," ","7","4",".","5"," ","E">>}

\* the texts a document may hold
Texts == CoordTexts \cup DateTexts \cup SiteTexts \cup ScenarioTexts
         \cup RangeThenYearTexts \cup DocstringDmsTexts \cup ProseTexts
         \cup FieldNoteTexts \cup {FieldReport} \cup EastingYearTexts
         \cup LongDecimalTexts \cup SignedHemisphereTexts

\* "not self.full_text": the text is the empty string or None
Missing == {<<>>, None}

\* the file at pdf_path cannot be read by pdfplumber nor by PyPDF2
Unreadable == << <<"UNREADABLE">> >>

\* the files of the processors that start without text, each the sequence
\* of the texts of its pages: two one-page reports, a page without
\* extractable text, and an unreadable file
ColdDocuments ==
    {<<FieldReport>>,
     <<ScenarioText(<<"3">>, <<"U","r">>,
                    <<"2","7",".","3","2","5",","," ","6","8",".","1","3","8">>,
                    <<<<"2","5","0","0">>, <<"1","9","0","0">>>>)>>,
     << <<>> >>, Unreadable}

\* f"\n\n--- Page {i+1} ---\n\n{text}" for the n-th page
PageText(n, text) ==
    <<"\n","\n","-","-","-"," ","P","a","g","e"," ">> \o IntToChars(n)
    \o <<" ","-","-","-","\n","\n">> \o text

\* the text extract_text_pdfplumber and extract_text_pypdf2 build from the
\* pages from the n-th on: the pages without text are left out
RECURSIVE PagesText(_, _)
PagesText(pages, n) ==
    IF n > Len(pages) THEN <<>>
    ELSE (IF pages[n] = <<>> THEN <<>> ELSE PageText(n, pages[n]))
         \o PagesText(pages, n + 1)

extract_text(pages) == PagesText(pages, 1)

\* the threads of a caller that runs the three extractors concurrently
Threads == {"coordinates", "dates", "sites"}
Idle == [pc |-> "idle", pending |-> <<>>]
Returned == {"coord_done", "date_done", "done"}

\* context_window of extract_coordinates and extract_dates: the default
DefaultWindow == 100

\* the fixed window of extract_sites
SiteWindow == 100

\* a window smaller than the texts, so that a context is a proper slice
SmallWindow == 3

\* ------------------------------------------------------------------------
\* State
\* ------------------------------------------------------------------------
VARIABLES
    pdf,             \* the file at pdf_path: the texts of its pages
    full_text,       \* PDFProcessor.full_text
    text_reads,      \* the number of extract_text calls the extractors made
    run,             \* the caller's schedule of the extractor calls
    ref,             \* the lists the caller keeps of earlier calls
    running,         \* the thread whose position and matches pc and pending hold
    parked,          \* position and matches of the other threads
    context_window,  \* the context_window argument of the calls
    pc,              \* the position of the caller and of the running extractor
    pending,         \* the matches finditer has still to yield
    coords,          \* results of extract_coordinates
    seen_coords,     \* seen_coords of extract_coordinates
    coord_src,       \* history: the match each record of coords came from
    utm_log,         \* the number of debug lines the UTM pass logged
    dates,           \* results of extract_dates
    seen_ranges,     \* seen_ranges of extract_dates
    date_src,        \* history: the match each record of dates came from
    sites,           \* results of extract_sites
    seen_sites,      \* seen_sites of extract_sites
    site_src,        \* history: the match each record of sites came from
    text_chunks,     \* PDFProcessor.text_chunks
    text,            \* the text argument of chunk_text
    chunk_size,      \* the chunk_size argument of chunk_text
    chunk_overlap,   \* the chunk_overlap argument of chunk_text
    start,           \* start of chunk_text
    chunks,          \* chunks of chunk_text
    chunk_src        \* history: the slice each chunk of chunks was cut from

vars == <<pdf, full_text, text_reads, run, ref, running, parked, context_window,
          pc, pending, coords, seen_coords, coord_src, utm_log, dates, seen_ranges,
          date_src, sites, seen_sites, site_src, text_chunks, text, chunk_size,
          chunk_overlap, start, chunks, chunk_src>>

callerVars == <<pdf, run, ref, running, parked>>

coordVars == <<coords, seen_coords, coord_src, utm_log>>
dateVars == <<dates, seen_ranges, date_src>>
siteVars == <<sites, seen_sites, site_src>>
chunkVars == <<text_chunks, text, chunk_size, chunk_overlap, start, chunks, chunk_src>>
\* ExtractText adding the text it read to the text the processor holds
ExtractTextAppends ==
    /\ pc \in {"coord_text", "date_text", "site_text"}
    /\ text_reads' = text_reads + 1
    /\ IF pdf = Unreadable
       THEN pc' = "raised" /\ UNCHANGED <<full_text, pending>>
       ELSE /\ full_text' = full_text \o extract_text(pdf)
            /\ pc' = CASE pc = "coord_text" -> "coord_p1"
                        [] pc = "date_text" -> "date_p1"
                        [] pc = "site_text" -> "site_p1"
            /\ pending' = CASE pc = "coord_text" ->
                                  decimal_with_dirs_finditer(full_text \o extract_text(pdf), 1)
                             [] pc = "date_text" ->
                                  modern_range_finditer(full_text \o extract_text(pdf), 1)
                             [] pc = "site_text" ->
                                  site_pattern1_finditer(full_text \o extract_text(pdf), 1)
    /\ UNCHANGED <<callerVars, chunkVars, context_window, coordVars, dateVars, siteVars>>

\* ------------------------------------------------------------------------
\* _ensure_full_text and extract_text
\* ------------------------------------------------------------------------
\* what is left of _ensure_full_text when "not self.full_text" held:
\* extract_text reads the file again; it raises when neither library can read
\* it, else it stores the text it read, which the extractor then scans
ExtractText ==
    /\ pc \in {"coord_text", "date_text", "site_text"}
    /\ text_reads' = text_reads + 1
    /\ IF pdf = Unreadable
       THEN pc' = "raised" /\ UNCHANGED <<full_text, pending>>
       ELSE /\ full_text' = extract_text(pdf)
            /\ pc' = CASE pc = "coord_text" -> "coord_p1"
                        [] pc = "date_text" -> "date_p1"
                        [] pc = "site_text" -> "site_p1"
            /\ pending' = CASE pc = "coord_text" -> decimal_with_dirs_finditer(extract_text(pdf), 1)
                             [] pc = "date_text" -> modern_range_finditer(extract_text(pdf), 1)
                             [] pc = "site_text" -> site_pattern1_finditer(extract_text(pdf), 1)
    /\ UNCHANGED <<callerVars, chunkVars, context_window, coordVars, dateVars, siteVars>>

\* ------------------------------------------------------------------------
\* extract_coordinates
\* ------------------------------------------------------------------------
\* DecimalWithDirsValue with the negation for W forgotten
DecimalWithDirsValueNoWest(m) ==
    <<IF ToUpper(m.lat_dir) = "S" THEN 0 - ParseFloat(m.lat) ELSE ParseFloat(m.lat),
      ParseFloat(m.lon)>>

\* lat = float(lat); lon = float(lon); negated for S and for W
DecimalWithDirsValue(m) ==
    <<IF ToUpper(m.lat_dir) = "S" THEN 0 - ParseFloat(m.lat) ELSE ParseFloat(m.lat),
      IF ToUpper(m.lon_dir) = "W" THEN 0 - ParseFloat(m.lon) ELSE ParseFloat(m.lon)>>

\* dms_to_decimal with the seconds divided by 60 as the minutes are
dms_to_decimal_seconds_by_60(degrees, minutes, seconds, direction) ==
    LET decimal == IF degrees >= SatDeg THEN SatDeg * Unit
                   ELSE degrees * Unit + minutes * (Unit \div 60) + seconds \div 60
    IN IF ToUpper(direction) \in {"S", "W"} THEN 0 - decimal ELSE decimal

\* degrees + minutes / 60.0 + seconds / 3600.0, negated for S and W
dms_to_decimal(degrees, minutes, seconds, direction) ==
    LET decimal == IF degrees >= SatDeg THEN SatDeg * Unit
                   ELSE degrees * Unit + minutes * (Unit \div 60) + seconds \div 3600
    IN IF ToUpper(direction) \in {"S", "W"} THEN 0 - decimal ELSE decimal

DmsValue(m) ==
    <<dms_to_decimal(ParseInt(m.lat_deg), ParseInt(m.lat_min),
                     ParseFloat(m.lat_sec), ToUpper(m.lat_dir)),
      dms_to_decimal(ParseInt(m.lon_deg), ParseInt(m.lon_min),
                     ParseFloat(m.lon_sec), ToUpper(m.lon_dir))>>

SimpleDecimalValue(m) == <<ParseFloat(m.lat), ParseFloat(m.lon)>>

CoordRecord(m, lat, lon) ==
    LET context_snippet == ContextSnippet(full_text, m, context_window)
    IN [latitude |-> lat, longitude |-> lon, context |-> context_snippet,
        site_name |-> extract_site_name_from_context(context_snippet)]

\* RegisterCoordinate without the duplicate check
RegisterCoordinateNoDedup(m, ll) ==
    IF ~InBounds(ll[1], ll[2]) THEN UNCHANGED <<coords, seen_coords, coord_src>>
    ELSE /\ seen_coords' = seen_coords \cup {CoordKey(ll[1], ll[2])}
         /\ coords' = Append(coords, CoordRecord(m, ll[1], ll[2]))
         /\ coord_src' = Append(coord_src, [family |-> m.family, s |-> m.s])
\* RegisterCoordinate keeping the last match of a key instead of the first
RegisterCoordinateLastWins(m, ll) ==
    IF ~InBounds(ll[1], ll[2]) THEN UNCHANGED <<coords, seen_coords, coord_src>>
    ELSE LET other == {k \in 1..Len(coords) :
                          CoordKey(coords[k].latitude, coords[k].longitude)
                          # CoordKey(ll[1], ll[2])}
             keep  == SelectSeq([k \in 1..Len(coords) |-> k], LAMBDA k : k \in other)
         IN /\ seen_coords' = seen_coords \cup {CoordKey(ll[1], ll[2])}
            /\ coords' = Append([n \in 1..Len(keep) |-> coords[keep[n]]],
                                CoordRecord(m, ll[1], ll[2]))
            /\ coord_src' = Append([n \in 1..Len(keep) |-> coord_src[keep[n]]],
                                   [family |-> m.family, s |-> m.s])
\* RegisterCoordinate adding the key to seen_coords ahead of the bounds check
RegisterCoordinateSeenFirst(m, ll) ==
    IF ~InBounds(ll[1], ll[2])
    THEN /\ seen_coords' = seen_coords \cup {CoordKey(ll[1], ll[2])}
         /\ UNCHANGED <<coords, coord_src>>
    ELSE IF CoordKey(ll[1], ll[2]) \in seen_coords
         THEN UNCHANGED <<coords, seen_coords, coord_src>>
    ELSE /\ seen_coords' = seen_coords \cup {CoordKey(ll[1], ll[2])}
         /\ coords' = Append(coords, CoordRecord(m, ll[1], ll[2]))
         /\ coord_src' = Append(coord_src, [family |-> m.family, s |-> m.s])

\* the bounds check, the duplicate check and the append of one match
RegisterCoordinate(m, ll) ==
    IF ~InBounds(ll[1], ll[2]) THEN UNCHANGED <<coords, seen_coords, coord_src>>
    ELSE IF CoordKey(ll[1], ll[2]) \in seen_coords
         THEN UNCHANGED <<coords, seen_coords, coord_src>>
    ELSE /\ seen_coords' = seen_coords \cup {CoordKey(ll[1], ll[2])}
         /\ coords' = Append(coords, CoordRecord(m, ll[1], ll[2]))
         /\ coord_src' = Append(coord_src, [family |-> m.family, s |-> m.s])
\* BeginCoordinates with seen_coords kept from the call before
BeginCoordinatesKeepsSeen ==
    /\ IF full_text \in Missing
       THEN pc' = "coord_text" /\ pending' = <<>>
       ELSE pc' = "coord_p1" /\ pending' = decimal_with_dirs_finditer(full_text, 1)
    /\ coords' = <<>>
    /\ coord_src' = <<>>
    /\ UNCHANGED <<full_text, text_reads, callerVars, chunkVars, context_window, utm_log,
                   seen_coords, dateVars, siteVars>>

\* the start of extract_coordinates: _ensure_full_text finds the text or
\* goes to extract_text, and results and seen_coords start empty
BeginCoordinates ==
    /\ IF full_text \in Missing
       THEN pc' = "coord_text" /\ pending' = <<>>
       ELSE pc' = "coord_p1" /\ pending' = decimal_with_dirs_finditer(full_text, 1)
    /\ coords' = <<>>
    /\ seen_coords' = {}
    /\ coord_src' = <<>>
    /\ UNCHANGED <<full_text, text_reads, callerVars, chunkVars, context_window, utm_log,
                   dateVars, siteVars>>

ExtractCoordinatesCall ==
    /\ pc = "ready"
    /\ BeginCoordinates

CoordPattern1Match ==
    /\ pc = "coord_p1" /\ pending # <<>>
    /\ RegisterCoordinate(Head(pending), DecimalWithDirsValue(Head(pending)))
    /\ pending' = Tail(pending)
    /\ UNCHANGED <<full_text, text_reads, callerVars, chunkVars, context_window, pc, utm_log, dateVars, siteVars>>

CoordPattern1End ==
    /\ pc = "coord_p1" /\ pending = <<>>
    /\ pc' = "coord_p2"
    /\ pending' = dms_pattern_finditer(full_text, 1)
    /\ UNCHANGED <<full_text, text_reads, callerVars, chunkVars, context_window, coordVars, dateVars, siteVars>>

CoordPattern2Match ==
    /\ pc = "coord_p2" /\ pending # <<>>
    /\ RegisterCoordinate(Head(pending), DmsValue(Head(pending)))
    /\ pending' = Tail(pending)
    /\ UNCHANGED <<full_text, text_reads, callerVars, chunkVars, context_window, pc, utm_log, dateVars, siteVars>>

CoordPattern2End ==
    /\ pc = "coord_p2" /\ pending = <<>>
    /\ pc' = "coord_p3"
    /\ pending' = simple_decimal_finditer(full_text, 1)
    /\ UNCHANGED <<full_text, text_reads, callerVars, chunkVars, context_window, coordVars, dateVars, siteVars>>

CoordPattern3Match ==
    /\ pc = "coord_p3" /\ pending # <<>>
    /\ RegisterCoordinate(Head(pending), SimpleDecimalValue(Head(pending)))
    /\ pending' = Tail(pending)
    /\ UNCHANGED <<full_text, text_reads, callerVars, chunkVars, context_window, pc, utm_log, dateVars, siteVars>>

CoordPattern3End ==
    /\ pc = "coord_p3" /\ pending = <<>>
    /\ pc' = "coord_p4"
    /\ pending' = utm_pattern_finditer(full_text, 1)
    /\ UNCHANGED <<full_text, text_reads, callerVars, chunkVars, context_window, coordVars, dateVars, siteVars>>
\* CoordUtmMatch turning the zone match into a record at the origin
CoordUtmMatchAppends ==
    /\ pc = "coord_p4" /\ pending # <<>>
    /\ utm_log' = utm_log + 1
    /\ coords' = Append(coords, CoordRecord(Head(pending), 0, 0))
    /\ seen_coords' = seen_coords \cup {CoordKey(0, 0)}
    /\ coord_src' = Append(coord_src, [family |-> 4, s |-> Head(pending).s])
    /\ pending' = Tail(pending)
    /\ UNCHANGED <<full_text, text_reads, callerVars, chunkVars, context_window, pc, dateVars, siteVars>>

\* a UTM match is logged at debug level and nothing else
CoordUtmMatch ==
    /\ pc = "coord_p4" /\ pending # <<>>
    /\ utm_log' = utm_log + 1
    /\ pending' = Tail(pending)
    /\ UNCHANGED <<full_text, text_reads, callerVars, chunkVars, context_window, pc, coords, seen_coords, coord_src,
                   dateVars, siteVars>>
\* ExtractCoordinatesReturn raising when no coordinate was found
ExtractCoordinatesReturnRaisesOnEmpty ==
    /\ pc = "coord_p4" /\ pending = <<>>
    /\ pc' = IF coords = <<>> THEN "raised" ELSE "coord_done"
    /\ UNCHANGED <<full_text, text_reads, callerVars, chunkVars, context_window, pending,
                   coordVars, dateVars, siteVars>>

ExtractCoordinatesReturn ==
    /\ pc = "coord_p4" /\ pending = <<>>
    /\ pc' = "coord_done"
    /\ UNCHANGED <<full_text, text_reads, callerVars, chunkVars, context_window, pending,
                   coordVars, dateVars, siteVars>>

\* ------------------------------------------------------------------------
\* extract_dates
\* ------------------------------------------------------------------------
\* Subsumed counting only the records of proper ranges
SubsumedByRangeOnly(year) ==
    \E k \in 1..Len(dates) :
        /\ dates[k].start_year < dates[k].end_year
        /\ dates[k].start_year <= year /\ year <= dates[k].end_year

\* Subsumed with the bounds of a record left outside its interval
SubsumedStrict(year) ==
    \E k \in 1..Len(dates) : dates[k].start_year < year /\ year < dates[k].end_year

\* any(r["start_year"] <= year <= r["end_year"] for r in results)
Subsumed(year) ==
    \E k \in 1..Len(dates) : dates[k].start_year <= year /\ year <= dates[k].end_year

DateRecord(m, label, start_year, end_year) ==
    LET context_snippet == ContextSnippet(full_text, m, context_window)
    IN [label |-> label, start_year |-> start_year, end_year |-> end_year,
        context |-> context_snippet,
        site_name |-> extract_site_name_from_context(context_snippet)]

\* ModernRange without the swap of a descending range
ModernRangeNoSwap(m) == <<ParseInt(m.start), ParseInt(m.end)>>

\* start and end of a modern range, swapped when descending
ModernRange(m) ==
    LET start_year == ParseInt(m.start)
        end_year   == ParseInt(m.end)
    IN IF start_year > end_year THEN <<end_year, start_year>>
       ELSE <<start_year, end_year>>

\* BceRange without the swap of an ascending range
BceRangeNoSwap(m) == <<ParseInt(m.start), ParseInt(m.end)>>

\* the BCE numbers of a BCE range, the larger one first
BceRange(m) ==
    LET start_year_bce == ParseInt(m.start)
        end_year_bce   == ParseInt(m.end)
    IN IF start_year_bce < end_year_bce THEN <<end_year_bce, start_year_bce>>
       ELSE <<start_year_bce, end_year_bce>>

\* RegisterRange without the duplicate check
RegisterRangeNoSeen(m, label, start_year, end_year) ==
    /\ seen_ranges' = seen_ranges \cup {<<start_year, end_year>>}
    /\ dates' = Append(dates, DateRecord(m, label, start_year, end_year))
    /\ date_src' = Append(date_src, [family |-> m.family, s |-> m.s])

\* the duplicate check and the append of one range
RegisterRange(m, label, start_year, end_year) ==
    IF <<start_year, end_year>> \in seen_ranges
    THEN UNCHANGED <<dates, seen_ranges, date_src>>
    ELSE /\ seen_ranges' = seen_ranges \cup {<<start_year, end_year>>}
         /\ dates' = Append(dates, DateRecord(m, label, start_year, end_year))
         /\ date_src' = Append(date_src, [family |-> m.family, s |-> m.s])
\* AppendYear with the record put at the front of the list
AppendYearFirst(m, label, year) ==
    /\ dates' = <<DateRecord(m, label, year, year)>> \o dates
    /\ date_src' = <<[family |-> m.family, s |-> m.s]>> \o date_src
    /\ UNCHANGED seen_ranges

\* the append of one single year
AppendYear(m, label, year) ==
    /\ dates' = Append(dates, DateRecord(m, label, year, year))
    /\ date_src' = Append(date_src, [family |-> m.family, s |-> m.s])
    /\ UNCHANGED seen_ranges

\* the start of extract_dates
BeginDates ==
    /\ IF full_text \in Missing
       THEN pc' = "date_text" /\ pending' = <<>>
       ELSE pc' = "date_p1" /\ pending' = modern_range_finditer(full_text, 1)
    /\ dates' = <<>>
    /\ seen_ranges' = {}
    /\ date_src' = <<>>
    /\ UNCHANGED <<full_text, text_reads, callerVars, chunkVars, context_window, coordVars, siteVars>>

ExtractDatesCall ==
    /\ pc = "coord_done" /\ run # "threads"
    /\ BeginDates

DatePattern1Match ==
    /\ pc = "date_p1" /\ pending # <<>>
    /\ LET m == Head(pending)
           r == ModernRange(m)
       IN RegisterRange(m, IntToChars(r[1]) \o <<"-">> \o IntToChars(r[2]), r[1], r[2])
    /\ pending' = Tail(pending)
    /\ UNCHANGED <<full_text, text_reads, callerVars, chunkVars, context_window, pc, coordVars, siteVars>>

DatePattern1End ==
    /\ pc = "date_p1" /\ pending = <<>>
    /\ pc' = "date_p2"
    /\ pending' = bce_range_finditer(full_text, 1)
    /\ UNCHANGED <<full_text, text_reads, callerVars, chunkVars, context_window, coordVars, dateVars, siteVars>>

DatePattern2Match ==
    /\ pc = "date_p2" /\ pending # <<>>
    /\ LET m == Head(pending)
           r == BceRange(m)
       IN RegisterRange(m, IntToChars(r[1]) \o <<"ENDASH">> \o IntToChars(r[2])
                           \o <<" ","B","C","E">>, 0 - r[1], 0 - r[2])
    /\ pending' = Tail(pending)
    /\ UNCHANGED <<full_text, text_reads, callerVars, chunkVars, context_window, pc, coordVars, siteVars>>

DatePattern2End ==
    /\ pc = "date_p2" /\ pending = <<>>
    /\ pc' = "date_p3"
    /\ pending' = bce_single_finditer(full_text, 1)
    /\ UNCHANGED <<full_text, text_reads, callerVars, chunkVars, context_window, coordVars, dateVars, siteVars>>

DatePattern3Match ==
    /\ pc = "date_p3" /\ pending # <<>>
    /\ LET m == Head(pending)
           year_bce == ParseInt(m.year)
       IN IF Subsumed(0 - year_bce) THEN UNCHANGED dateVars
          ELSE AppendYear(m, IntToChars(year_bce) \o <<" ","B","C","E">>, 0 - year_bce)
    /\ pending' = Tail(pending)
    /\ UNCHANGED <<full_text, text_reads, callerVars, chunkVars, context_window, pc, coordVars, siteVars>>

DatePattern3End ==
    /\ pc = "date_p3" /\ pending = <<>>
    /\ pc' = "date_p4"
    /\ pending' = contextual_date_finditer(full_text, 1)
    /\ UNCHANGED <<full_text, text_reads, callerVars, chunkVars, context_window, coordVars, dateVars, siteVars>>

DatePattern4Match ==
    /\ pc = "date_p4" /\ pending # <<>>
    /\ LET m == Head(pending)
           year == ParseInt(m.year)
       IN IF Subsumed(year) THEN UNCHANGED dateVars
          ELSE AppendYear(m, IntToChars(year), year)
    /\ pending' = Tail(pending)
    /\ UNCHANGED <<full_text, text_reads, callerVars, chunkVars, context_window, pc, coordVars, siteVars>>

DatePattern4End ==
    /\ pc = "date_p4" /\ pending = <<>>
    /\ pc' = "date_p5"
    /\ pending' = year_finditer(full_text, 1)
    /\ UNCHANGED <<full_text, text_reads, callerVars, chunkVars, context_window, coordVars, dateVars, siteVars>>

DatePattern5Match ==
    /\ pc = "date_p5" /\ pending # <<>>
    /\ LET m == Head(pending)
           year == ParseInt(m.year)
       IN IF Subsumed(year) THEN UNCHANGED dateVars
          ELSE IF NearUtmOrDigits(full_text, m) THEN UNCHANGED dateVars
          ELSE AppendYear(m, IntToChars(year), year)
    /\ pending' = Tail(pending)
    /\ UNCHANGED <<full_text, text_reads, callerVars, chunkVars, context_window, pc, coordVars, siteVars>>

ExtractDatesReturn ==
    /\ pc = "date_p5" /\ pending = <<>>
    /\ pc' = "date_done"
    /\ UNCHANGED <<full_text, text_reads, callerVars, chunkVars, context_window, pending,
                   coordVars, dateVars, siteVars>>

\* ------------------------------------------------------------------------
\* extract_sites
\* ------------------------------------------------------------------------
\* RegisterSite without the seen_sites check
RegisterSiteNoSeen(m) ==
    /\ seen_sites' = seen_sites \cup {m.site_name}
    /\ sites' = Append(sites, [site_name |-> m.site_name,
                               site_type |-> m.site_type,
                               context |-> ContextSnippet(full_text, m, SiteWindow)])
    /\ site_src' = Append(site_src, [pattern |-> pc, s |-> m.s])

\* the seen_sites check and the append of one match
RegisterSite(m) ==
    IF m.site_name \in seen_sites THEN UNCHANGED <<sites, seen_sites, site_src>>
    ELSE /\ seen_sites' = seen_sites \cup {m.site_name}
         /\ sites' = Append(sites, [site_name |-> m.site_name,
                                    site_type |-> m.site_type,
                                    context |-> ContextSnippet(full_text, m, SiteWindow)])
         /\ site_src' = Append(site_src, [pattern |-> pc, s |-> m.s])

\* the start of extract_sites
BeginSites ==
    /\ IF full_text \in Missing
       THEN pc' = "site_text" /\ pending' = <<>>
       ELSE pc' = "site_p1" /\ pending' = site_pattern1_finditer(full_text, 1)
    /\ sites' = <<>>
    /\ seen_sites' = {}
    /\ site_src' = <<>>
    /\ UNCHANGED <<full_text, text_reads, callerVars, chunkVars, context_window, coordVars, dateVars>>

ExtractSitesCall ==
    /\ pc = "date_done" /\ run # "threads"
    /\ BeginSites

SitePattern1Match ==
    /\ pc = "site_p1" /\ pending # <<>>
    /\ RegisterSite(Head(pending))
    /\ pending' = Tail(pending)
    /\ UNCHANGED <<full_text, text_reads, callerVars, chunkVars, context_window, pc, coordVars, dateVars>>

SitePattern1End ==
    /\ pc = "site_p1" /\ pending = <<>>
    /\ pc' = "site_p2"
    /\ pending' = site_pattern2_finditer(full_text, 1)
    /\ UNCHANGED <<full_text, text_reads, callerVars, chunkVars, context_window, coordVars, dateVars, siteVars>>

SitePattern2Match ==
    /\ pc = "site_p2" /\ pending # <<>>
    /\ RegisterSite(Head(pending))
    /\ pending' = Tail(pending)
    /\ UNCHANGED <<full_text, text_reads, callerVars, chunkVars, context_window, pc, coordVars, dateVars>>

SitePattern2End ==
    /\ pc = "site_p2" /\ pending = <<>>
    /\ pc' = "site_trench"
    /\ pending' = trench_finditer(full_text, 1)
    /\ UNCHANGED <<full_text, text_reads, callerVars, chunkVars, context_window, coordVars, dateVars, siteVars>>

\* the loop body shared by the Trench, Locus and Mound patterns
SitePattern3Match ==
    /\ pc \in {"site_trench", "site_locus", "site_mound"} /\ pending # <<>>
    /\ RegisterSite(Head(pending))
    /\ pending' = Tail(pending)
    /\ UNCHANGED <<full_text, text_reads, callerVars, chunkVars, context_window, pc, coordVars, dateVars>>

\* the next pattern of the list [Trench, Locus, Mound]
SitePattern3Next ==
    /\ pc \in {"site_trench", "site_locus"} /\ pending = <<>>
    /\ pc' = IF pc = "site_trench" THEN "site_locus" ELSE "site_mound"
    /\ pending' = IF pc = "site_trench" THEN locus_finditer(full_text, 1)
                  ELSE mound_finditer(full_text, 1)
    /\ UNCHANGED <<full_text, text_reads, callerVars, chunkVars, context_window, coordVars, dateVars, siteVars>>

ExtractSitesReturn ==
    /\ pc = "site_mound" /\ pending = <<>>
    /\ pc' = "done"
    /\ UNCHANGED <<full_text, text_reads, callerVars, chunkVars, context_window, pending,
                   coordVars, dateVars, siteVars>>
\* ------------------------------------------------------------------------
\* chunk_text and process
\* ------------------------------------------------------------------------
\* a slice bound as Python reads it: a negative one counts from the end of
\* the text, and both are cut to 0..n
PyIndex(i, n) == IF i < 0 THEN Max(0, i + n) ELSE Min(i, n)

\* t[a:b]
PySlice(t, a, b) ==
    IF PyIndex(a, Len(t)) < PyIndex(b, Len(t))
    THEN SubSeq(t, PyIndex(a, Len(t)) + 1, PyIndex(b, Len(t)))
    ELSE <<>>

\* t.rfind(d, a, b): the highest index at which d lies inside t[a:b], or -1
rfind(t, d, a, b) ==
    LET hits == {p \in PyIndex(a, Len(t))..(PyIndex(b, Len(t)) - Len(d)) :
                    SubSeq(t, p + 1, p + Len(d)) = d}
    IN IF hits = {} THEN 0 - 1
       ELSE CHOOSE p \in hits : \A q \in hits : q <= p

\* [". ", ".\n", "! ", "!\n", "? ", "?\n", "\n\n"]
Delimiters == << <<".", " ">>, <<".", "\n">>, <<"!", " ">>, <<"!", "\n">>,
                 <<"?", " ">>, <<"?", "\n">>, <<"\n", "\n">> >>

\* the end of the chunk that starts at a: a + size, moved when that is
\* inside the text to the end of the last occurrence, in t[a : a + size], of
\* the first delimiter of the list that occurs there
ChunkEnd(t, a, size) ==
    LET found == {k \in 1..Len(Delimiters) : rfind(t, Delimiters[k], a, a + size) # 0 - 1}
        SentenceEnd(k) == rfind(t, Delimiters[k], a, a + size) + Len(Delimiters[k])
    IN IF a + size < Len(t) /\ found # {} THEN SentenceEnd(Leftmost(found))
       ELSE a + size

\* chunk_size and chunk_overlap of the call in app.py
DefaultChunkSize == 1000
DefaultChunkOverlap == 200

\* chunk sizes of the direct calls of chunk_text
MaxChunkSize == 7

\* the loop of chunk_text is followed for at most MaxChunks chunks
MaxChunks == 13

\* the texts of the direct calls of chunk_text: every text of at most
\* MaxChunkText characters and two longer ones, a sentence end at the very
\* start and one after a first word
ChunkChars == {"a", ".", " ", "\n"}

MaxChunkText == 5

ShortChunkTexts == UNION {[1..n -> ChunkChars] : n \in 0..MaxChunkText}

LongChunkTexts ==
    {<<".", " ", "a", "a", "a", "a", "a", "a", "a">>,
     <<"a", "a", ".", " ", "a", "a", "a", "a", "a", "a", "a", "a">>}

ChunkTexts == ShortChunkTexts \cup LongChunkTexts

\* process(): extract_text, then chunk_text on the text it returned
Process ==
    /\ pc = "process"
    /\ text_reads' = text_reads + 1
    /\ IF pdf = Unreadable
       THEN pc' = "raised" /\ UNCHANGED <<full_text, text>>
       ELSE /\ full_text' = extract_text(pdf)
            /\ text' = extract_text(pdf)
            /\ pc' = "chunk_call"
    /\ UNCHANGED <<callerVars, text_chunks, chunk_size, chunk_overlap, start, chunks,
                   chunk_src, context_window, pending, coordVars, dateVars, siteVars>>

\* the start of chunk_text: an empty text returns the empty list
ChunkTextCall ==
    /\ pc = "chunk_call"
    /\ pc' = IF text = <<>> THEN "chunk_exit" ELSE "chunk_loop"
    /\ start' = 0
    /\ chunks' = <<>>
    /\ chunk_src' = <<>>
    /\ UNCHANGED <<full_text, text_reads, callerVars, text_chunks, text, chunk_size,
                   chunk_overlap, context_window, pending, coordVars, dateVars, siteVars>>

\* one turn of the while loop of chunk_text
ChunkStep ==
    /\ pc = "chunk_loop" /\ Len(chunks) < MaxChunks
    /\ LET end   == ChunkEnd(text, start, chunk_size)
           chunk == Strip(PySlice(text, start, end))
       IN /\ IF chunk # <<>>
             THEN /\ chunks' = Append(chunks, chunk)
                  /\ chunk_src' = Append(chunk_src, [lo |-> PyIndex(start, Len(text)),
                                                     hi |-> PyIndex(end, Len(text))])
             ELSE UNCHANGED <<chunks, chunk_src>>
          /\ start' = end - chunk_overlap
          /\ pc' = IF end - chunk_overlap >= Len(text) THEN "chunk_exit" ELSE "chunk_loop"
    /\ UNCHANGED <<full_text, text_reads, callerVars, text_chunks, text, chunk_size,
                   chunk_overlap, context_window, pending, coordVars, dateVars, siteVars>>

\* chunk_text returns its chunks and process keeps them in text_chunks
ChunkTextReturn ==
    /\ pc = "chunk_exit"
    /\ text_chunks' = chunks
    /\ pc' = "ready"
    /\ UNCHANGED <<full_text, text_reads, callerVars, text, chunk_size, chunk_overlap,
                   start, chunks, chunk_src, context_window, pending,
                   coordVars, dateVars, siteVars>>

\* a processor on which neither process nor chunk_text has run
Unchunked ==
    /\ text_chunks = <<>> /\ text = <<>>
    /\ start = 0 /\ chunks = <<>> /\ chunk_src = <<>>

\* ------------------------------------------------------------------------
\* Specification: a processor holding a document text, on which the caller
\* runs extract_coordinates, extract_dates and extract_sites in this order
\* ------------------------------------------------------------------------
Start ==
    /\ context_window \in {DefaultWindow, SmallWindow}
    /\ text_reads = 0
    /\ ref = [who |-> "none", coords |-> <<>>, dates |-> <<>>, sites |-> <<>>]
    /\ pending = <<>>
    /\ coords = <<>> /\ seen_coords = {} /\ coord_src = <<>> /\ utm_log = 0
    /\ dates = <<>> /\ seen_ranges = {} /\ date_src = <<>>
    /\ sites = <<>> /\ seen_sites = {} /\ site_src = <<>>
    /\ Unchunked

\* the processor was handed its text and has no file to read, or it holds
\* no text and the extractors are the first readers of its file; the
\* extractors run one after another as in app.py
Init ==
    /\ \/ full_text \in Texts /\ pdf = Unreadable
       \/ full_text \in Missing /\ pdf \in ColdDocuments
    /\ Start
    /\ chunk_size = DefaultChunkSize /\ chunk_overlap = DefaultChunkOverlap
    /\ run = "sequence"
    /\ running = "caller"
    /\ parked = [th \in Threads |-> Idle]
    /\ pc = "ready"

Next ==
    \/ ExtractText
    \/ ExtractCoordinatesCall
    \/ CoordPattern1Match \/ CoordPattern1End
    \/ CoordPattern2Match \/ CoordPattern2End
    \/ CoordPattern3Match \/ CoordPattern3End
    \/ CoordUtmMatch
    \/ ExtractCoordinatesReturn
    \/ ExtractDatesCall
    \/ DatePattern1Match \/ DatePattern1End
    \/ DatePattern2Match \/ DatePattern2End
    \/ DatePattern3Match \/ DatePattern3End
    \/ DatePattern4Match \/ DatePattern4End
    \/ DatePattern5Match
    \/ ExtractDatesReturn
    \/ ExtractSitesCall
    \/ SitePattern1Match \/ SitePattern1End
    \/ SitePattern2Match \/ SitePattern2End
    \/ SitePattern3Match \/ SitePattern3Next
    \/ ExtractSitesReturn

Spec == Init /\ [][Next]_vars

\* ------------------------------------------------------------------------
\* Specification: the same processor and caller, on the texts that name
\* sites, on prose and on the field report
\* ------------------------------------------------------------------------
NoteTexts == SiteTexts \cup FieldNoteTexts \cup ScenarioTexts \cup ProseTexts
             \cup {FieldReport}

NotesInit == Init /\ full_text \in NoteTexts \cup Missing

NotesSpec == NotesInit /\ [][Next]_vars

\* ------------------------------------------------------------------------
\* Specification: a caller that runs an extractor a second time on the same
\* processor, and a caller that runs the three extractors in three threads
\* of one processor and then once more one after another
\* ------------------------------------------------------------------------
Results == [who |-> "all", coords |-> coords, dates |-> dates, sites |-> sites]

\* the extractor that has just returned is called again with the same
\* arguments; the caller keeps the list of the first call
Again ==
    /\ run = "first" /\ pc \in Returned
    /\ run' = "repeat"
    /\ ref' = [Results EXCEPT !.who = pc]
    /\ pc' = CASE pc = "coord_done" -> "ready"
                [] pc = "date_done" -> "coord_done"
                [] pc = "done" -> "date_done"
    /\ UNCHANGED <<pdf, full_text, text_reads, running, parked, chunkVars, context_window,
                   pending, coordVars, dateVars, siteVars>>

\* the running thread enters its extractor
ThreadCall ==
    /\ run = "threads" /\ pc = "start"
    /\ \/ running = "coordinates" /\ BeginCoordinates
       \/ running = "dates" /\ BeginDates
       \/ running = "sites" /\ BeginSites

\* the interpreter switches to thread th, which has not returned yet
Switch(th) ==
    /\ run = "threads" /\ th # running
    /\ parked[th].pc \notin Returned \cup {"raised"}
    /\ parked' = [parked EXCEPT ![running] = [pc |-> pc, pending |-> pending],
                                ![th] = Idle]
    /\ running' = th
    /\ pc' = parked[th].pc
    /\ pending' = parked[th].pending
    /\ UNCHANGED <<pdf, full_text, text_reads, run, ref, chunkVars, context_window,
                   coordVars, dateVars, siteVars>>

\* the three threads have returned: the caller keeps their lists and runs
\* the extractors again, one after another
ThreadsJoined ==
    /\ run = "threads" /\ pc \in Returned
    /\ \A th \in Threads \ {running} : parked[th].pc \in Returned
    /\ run' = "reference"
    /\ ref' = Results
    /\ running' = "caller"
    /\ parked' = [th \in Threads |-> Idle]
    /\ pc' = "ready"
    /\ UNCHANGED <<pdf, full_text, text_reads, chunkVars, context_window, pending,
                   coordVars, dateVars, siteVars>>

SessionInit ==
    /\ pdf \in ColdDocuments
    /\ \/ full_text \in Missing
       \/ pdf # Unreadable /\ full_text = extract_text(pdf)
    /\ Start
    /\ chunk_size = DefaultChunkSize /\ chunk_overlap = DefaultChunkOverlap
    /\ \/ run = "first" /\ running = "caller" /\ pc = "ready"
          /\ parked = [th \in Threads |-> Idle]
       \/ run = "threads" /\ running = "coordinates" /\ pc = "start"
          /\ parked = [th \in Threads |->
                          IF th = running THEN Idle ELSE [pc |-> "start", pending |-> <<>>]]

SessionNext ==
    \/ Next
    \/ Again
    \/ ThreadCall
    \/ \E th \in Threads : Switch(th)
    \/ ThreadsJoined

SessionSpec == SessionInit /\ [][SessionNext]_vars
\* ------------------------------------------------------------------------
\* Specification: chunk_text called on a text with 0 <= chunk_overlap <
\* chunk_size
\* ------------------------------------------------------------------------
ChunkInit ==
    /\ pdf = Unreadable /\ full_text = <<>>
    /\ context_window = DefaultWindow
    /\ text_reads = 0
    /\ ref = [who |-> "none", coords |-> <<>>, dates |-> <<>>, sites |-> <<>>]
    /\ pending = <<>>
    /\ coords = <<>> /\ seen_coords = {} /\ coord_src = <<>> /\ utm_log = 0
    /\ dates = <<>> /\ seen_ranges = {} /\ date_src = <<>>
    /\ sites = <<>> /\ seen_sites = {} /\ site_src = <<>>
    /\ text_chunks = <<>>
    /\ text \in ChunkTexts
    /\ chunk_size \in 1..MaxChunkSize
    /\ chunk_overlap \in 0..(chunk_size - 1)
    /\ start = 0 /\ chunks = <<>> /\ chunk_src = <<>>
    /\ run = "sequence"
    /\ running = "caller"
    /\ parked = [th \in Threads |-> Idle]
    /\ pc = "chunk_call"

ChunkNext ==
    \/ ChunkTextCall
    \/ ChunkStep
    \/ ChunkTextReturn

ChunkSpec == ChunkInit /\ [][ChunkNext]_vars

\* ------------------------------------------------------------------------
\* Specification: app.py builds a processor for a file, calls process on it
\* and then the three extractors
\* ------------------------------------------------------------------------
ProcessInit ==
    /\ pdf \in ColdDocuments
    /\ full_text = <<>>
    /\ Start
    /\ chunk_size = DefaultChunkSize /\ chunk_overlap = DefaultChunkOverlap
    /\ run = "sequence"
    /\ running = "caller"
    /\ parked = [th \in Threads |-> Idle]
    /\ pc = "process"

ProcessNext ==
    \/ Process
    \/ ChunkTextCall
    \/ ChunkStep
    \/ ChunkTextReturn
    \/ Next

ProcessSpec == ProcessInit /\ [][ProcessNext]_vars

\* ------------------------------------------------------------------------
\* Properties
\* ------------------------------------------------------------------------
\* the matches of the three emitting coordinate patterns in scan order,
\* each with its converted value
CoordScan(t) ==
    LET f1 == decimal_with_dirs_finditer(t, 1)
        f2 == dms_pattern_finditer(t, 1)
        f3 == simple_decimal_finditer(t, 1)
    IN [k \in 1..Len(f1) |-> [family |-> 1, s |-> f1[k].s, v |-> DecimalWithDirsValue(f1[k])]]
       \o [k \in 1..Len(f2) |-> [family |-> 2, s |-> f2[k].s, v |-> DmsValue(f2[k])]]
       \o [k \in 1..Len(f3) |-> [family |-> 3, s |-> f3[k].s, v |-> SimpleDecimalValue(f3[k])]]

LegalLat(v) == 0 - 810000000 <= v /\ v <= 810000000
LegalLon(v) == 0 - 1620000000 <= v /\ v <= 1620000000

RoundedPair(lat, lon) == <<Round6(lat), Round6(lon)>>

\* C1: every record of extract_coordinates has -90 <= latitude <= 90 and
\* -180 <= longitude <= 180 (810000000 and 1620000000 units of 1/9000000
\* degree), and a match whose converted value is outside these bounds adds
\* no record.
C1_CoordinatesInBounds ==
    /\ \A k \in 1..Len(coords) :
          LegalLat(coords[k].latitude) /\ LegalLon(coords[k].longitude)
    /\ pc = "coord_done" =>
          LET scan == CoordScan(full_text)
          IN \A k \in 1..Len(scan) :
                ~(LegalLat(scan[k].v[1]) /\ LegalLon(scan[k].v[2])) =>
                   \A j \in 1..Len(coord_src) :
                      ~(coord_src[j].family = scan[k].family /\ coord_src[j].s = scan[k].s)

\* C1 witness: extract_coordinates has returned a record from a text that
\* also holds a match outside the bounds
C1_Witness ==
    /\ pc = "coord_done"
    /\ coords # <<>>
    /\ \E k \in 1..Len(CoordScan(full_text)) :
          LET c == CoordScan(full_text)[k]
          IN ~(LegalLat(c.v[1]) /\ LegalLon(c.v[2]))

\* C2: every record of extract_dates has start_year <= end_year.
C2_StartNotAfterEnd ==
    \A k \in 1..Len(dates) : dates[k].start_year <= dates[k].end_year

\* C2 witness: extract_dates has returned the record of a range the text
\* gives in descending order, "2002-1998"
C2_Witness ==
    /\ pc = "date_done"
    /\ full_text = DateMentions[2]
    /\ Len(dates) = 1
    /\ dates[1].start_year = 1998 /\ dates[1].end_year = 2002

\* the in-bounds matches of CoordScan(t)
LegalScan(t) ==
    SelectSeq(CoordScan(t), LAMBDA c : LegalLat(c.v[1]) /\ LegalLon(c.v[2]))

\* C3: no two records of extract_coordinates have the same rounded pair,
\* and the record kept for a rounded pair is the one of the first in-bounds
\* match with that pair in scan order (pattern 1, then 2, then 3, each left
\* to right); every later one is dropped.
C3_FirstOfEachKeyKept ==
    /\ \A i, j \in 1..Len(coords) :
          i < j => RoundedPair(coords[i].latitude, coords[i].longitude)
                   # RoundedPair(coords[j].latitude, coords[j].longitude)
    /\ pc = "coord_done" =>
          LET scan  == LegalScan(full_text)
              first == {k \in 1..Len(scan) :
                           \A h \in 1..(k - 1) :
                              RoundedPair(scan[h].v[1], scan[h].v[2])
                              # RoundedPair(scan[k].v[1], scan[k].v[2])}
              kept  == SelectSeq([k \in 1..Len(scan) |-> k], LAMBDA k : k \in first)
          IN /\ Len(coords) = Len(kept)
             /\ \A n \in 1..Len(kept) :
                   /\ coord_src[n] = [family |-> scan[kept[n]].family, s |-> scan[kept[n]].s]
                   /\ coords[n].latitude = scan[kept[n]].v[1]
                   /\ coords[n].longitude = scan[kept[n]].v[2]

\* C3 witness: extract_coordinates has returned fewer records than the text
\* has in-bounds matches: a later match with the key of an earlier one was
\* dropped
C3_Witness ==
    /\ pc = "coord_done"
    /\ coords # <<>>
    /\ Len(coords) < Len(LegalScan(full_text))

\* the year a single-year match stands for, negative when BCE
CandidateYear(m) == IF m.family = 3 THEN 0 - ParseInt(m.year) ELSE ParseInt(m.year)

\* year lies inside the interval of record r
Inside(year, r) == r.start_year <= year /\ year <= r.end_year

\* C4: a single-year candidate of pattern 3, 4 or 5 is appended, as the
\* record (year, year) at the end of the list, if and only if no record
\* already in the list has start_year <= year <= end_year and, for pattern 5,
\* its UTM/digit guard does not fire; otherwise the list is left as it is.
\* Hence no single-year record's year ever lies inside the interval of a
\* record that precedes it, be that a range or another single year.
C4_SingleYearSubsumption ==
    /\ [](\A i, j \in 1..Len(dates) :
             (i < j /\ date_src[j].family \in {3, 4, 5}) =>
                ~Inside(dates[j].start_year, dates[i]))
    /\ [][(pc \in {"date_p3", "date_p4", "date_p5"} /\ pending # <<>>) =>
             LET m     == Head(pending)
                 free  == \A k \in 1..Len(dates) : ~Inside(CandidateYear(m), dates[k])
                 guard == m.family = 5 => ~NearUtmOrDigits(full_text, m)
             IN IF free /\ guard
                THEN /\ Len(dates') = Len(dates) + 1
                     /\ SubSeq(dates', 1, Len(dates)) = dates
                     /\ dates'[Len(dates')].start_year = CandidateYear(m)
                     /\ dates'[Len(dates')].end_year = CandidateYear(m)
                ELSE dates' = dates]_vars

\* C4 witness: extract_dates has returned one record for "summer 2005 2005":
\* the contextual year was appended, and both bare-year candidates 2005
\* were dropped because that single-year record already held them
C4_Witness ==
    /\ pc = "date_done"
    /\ full_text = JoinMentions(DateMentions, <<7, 10>>)
    /\ Len(dates) = 1
    /\ date_src[1].family = 4
    /\ dates[1].start_year = 2005 /\ dates[1].end_year = 2005

\* C5: for the text "occupied A to B. In Y a trench" with A <= Y <= B,
\* extract_dates returns exactly one record, the range with start_year = A
\* and end_year = B; neither Y nor the years A and B of the range itself add
\* a record.
C5_RangeSubsumesYear ==
    \A A \in ModelYears, B \in ModelYears, Y \in ModelYears :
        (pc = "date_done" /\ full_text = RangeThenYear(A, B, Y) /\ A <= Y /\ Y <= B) =>
            /\ Len(dates) = 1
            /\ dates[1].start_year = A
            /\ dates[1].end_year = B

\* C5 witness: extract_dates has returned the single record 1998..2002 for
\* "occupied 1998 to 2002. In 1999 a trench"
C5_Witness ==
    /\ pc = "date_done"
    /\ full_text = RangeThenYear(1998, 2002, 1999)
    /\ Len(dates) = 1
    /\ date_src[1].family = 1
    /\ dates[1].start_year = 1998 /\ dates[1].end_year = 2002

\* (start_year, end_year) of record r
YearPair(r) == <<r.start_year, r.end_year>>

\* the normalized pair of a range match: ascending years for a modern range,
\* the negated BCE numbers, larger number first, for a BCE range
NormalizedPair(m) ==
    IF m.family = 1
    THEN <<Min(ParseInt(m.start), ParseInt(m.end)), Max(ParseInt(m.start), ParseInt(m.end))>>
    ELSE <<0 - Max(ParseInt(m.start), ParseInt(m.end)),
           0 - Min(ParseInt(m.start), ParseInt(m.end))>>

\* C6: ranges are deduplicated by the exact pair (start_year, end_year):
\* the one seen-set holds the pairs of the modern and of the BCE range
\* records alike, a range match whose normalized pair a record already has
\* leaves the list as it is and any other is appended, and no two records
\* of the list, range or single year, ever have the same pair.
C6_RangePairsUnique ==
    /\ [](\A i, j \in 1..Len(dates) : i < j => YearPair(dates[i]) # YearPair(dates[j]))
    /\ [](seen_ranges = {YearPair(dates[k]) :
                            k \in {n \in 1..Len(dates) : date_src[n].family \in {1, 2}}})
    /\ [][(pc \in {"date_p1", "date_p2"} /\ pending # <<>>) =>
             IF \E k \in 1..Len(dates) : YearPair(dates[k]) = NormalizedPair(Head(pending))
             THEN dates' = dates
             ELSE /\ Len(dates') = Len(dates) + 1
                  /\ SubSeq(dates', 1, Len(dates)) = dates
                  /\ YearPair(dates'[Len(dates')]) = NormalizedPair(Head(pending))]_vars

\* C6 witness: extract_dates has returned one record for
\* "1998 to 2002 2002-1998": the second range, the same pair once
\* normalized, was dropped
C6_Witness ==
    /\ pc = "date_done"
    /\ full_text = JoinMentions(DateMentions, <<1, 2>>)
    /\ Len(dates) = 1
    /\ YearPair(dates[1]) = <<1998, 2002>>

\* C7: whatever order the text gives, the record of a BCE range written
\* with numbers X and Y has start_year = -max(X, Y) and end_year =
\* -min(X, Y), and the record of a modern range written with years A and B
\* has start_year = min(A, B) and end_year = max(A, B); "2500-1900 BCE"
\* gives -2500 and -1900.
C7_EarlierBoundFirst ==
    /\ \A k \in 1..Len(dates) :
          /\ date_src[k].family = 1 =>
                LET m == modern_range_pattern(full_text, date_src[k].s)
                IN /\ dates[k].start_year = Min(ParseInt(m.start), ParseInt(m.end))
                   /\ dates[k].end_year = Max(ParseInt(m.start), ParseInt(m.end))
          /\ date_src[k].family = 2 =>
                LET m == bce_range_pattern(full_text, date_src[k].s)
                IN /\ dates[k].start_year = 0 - Max(ParseInt(m.start), ParseInt(m.end))
                   /\ dates[k].end_year = 0 - Min(ParseInt(m.start), ParseInt(m.end))
    /\ (pc = "date_done" /\ full_text = DateMentions[3]) =>
          /\ dates # <<>>
          /\ date_src[1].family = 2
          /\ dates[1].start_year = 0 - 2500
          /\ dates[1].end_year = 0 - 1900

\* C7 witness: extract_dates has returned, for "1900-2500 BC" written with
\* the smaller number first, a range record with start_year -2500 and
\* end_year -1900
C7_Witness ==
    /\ pc = "date_done"
    /\ full_text = DateMentions[4]
    /\ dates # <<>>
    /\ date_src[1].family = 2
    /\ dates[1].start_year = 0 - 2500 /\ dates[1].end_year = 0 - 1900

\* C8: the record of a decimal-with-direction match has the parsed latitude
\* number negated when the hemisphere letter is S and as it is when N, and
\* the parsed longitude number negated when the letter is W and as it is
\* when E; "40.7128 S, 74.0060 W" gives latitude -40.7128 and longitude
\* -74.0060 (-366415200 and -666054000 units of 1/9000000 degree).
C8_HemisphereSigns ==
    /\ \A k \in 1..Len(coords) :
          coord_src[k].family = 1 =>
             LET m == decimal_with_dirs(full_text, coord_src[k].s)
             IN /\ ToUpper(m.lat_dir) = "S" => coords[k].latitude = 0 - ParseFloat(m.lat)
                /\ ToUpper(m.lat_dir) = "N" => coords[k].latitude = ParseFloat(m.lat)
                /\ ToUpper(m.lon_dir) = "W" => coords[k].longitude = 0 - ParseFloat(m.lon)
                /\ ToUpper(m.lon_dir) = "E" => coords[k].longitude = ParseFloat(m.lon)
    /\ (pc = "coord_done" /\ full_text = CoordMentions[1]) =>
          /\ Len(coords) = 1
          /\ coords[1].latitude = 0 - 366415200
          /\ coords[1].longitude = 0 - 666054000

\* C8 witness: extract_coordinates has returned, for "40.7128 S, 74.0060 W",
\* a record of pattern 1 in the southern and western hemispheres
C8_Witness ==
    /\ pc = "coord_done"
    /\ full_text = CoordMentions[1]
    /\ Len(coords) = 1
    /\ coord_src[1].family = 1
    /\ coords[1].latitude < 0 /\ coords[1].longitude < 0

\* degrees + minutes/60 + seconds/3600 of three captured components,
\* negated when the hemisphere letter is neg
DmsDegrees(deg, min, sec, dir, neg) ==
    LET decimal == ParseInt(deg) * Unit + (ParseInt(min) * Unit) \div 60
                   + ParseFloat(sec) \div 3600
    IN IF ToUpper(dir) = neg THEN 0 - decimal ELSE decimal

DmsLat(m) == DmsDegrees(m.lat_deg, m.lat_min, m.lat_sec, m.lat_dir, "S")
DmsLon(m) == DmsDegrees(m.lon_deg, m.lon_min, m.lon_sec, m.lon_dir, "W")

\* C9: the record of a DMS match has latitude and longitude each equal to
\* degrees + minutes/60 + seconds/3600 of its own three components, negated
\* exactly when its letter is S (latitude) or W (longitude); a DMS match
\* whose value is out of bounds gives no record, and one in bounds has its
\* rounded pair in the result, under its own record or an earlier one's.
C9_DmsConversion ==
    /\ \A k \in 1..Len(coords) :
          coord_src[k].family = 2 =>
             LET m == dms_pattern(full_text, coord_src[k].s)
             IN /\ coords[k].latitude = DmsLat(m)
                /\ coords[k].longitude = DmsLon(m)
    /\ pc = "coord_done" =>
          LET found == dms_pattern_finditer(full_text, 1)
              Kept(m) ==
                 IF LegalLat(DmsLat(m)) /\ LegalLon(DmsLon(m))
                 THEN \E k \in 1..Len(coords) :
                         /\ RoundedPair(coords[k].latitude, coords[k].longitude)
                            = RoundedPair(DmsLat(m), DmsLon(m))
                         /\ \/ coord_src[k] = [family |-> 2, s |-> m.s]
                            \/ coord_src[k].family = 1
                            \/ coord_src[k].family = 2 /\ coord_src[k].s < m.s
                 ELSE \A k \in 1..Len(coords) : coord_src[k] # [family |-> 2, s |-> m.s]
          IN \A n \in 1..Len(found) : Kept(found[n])

\* C9 witness: extract_coordinates has returned, for 40 deg 42' 46" N
\* 74 deg 0' 21" W, the record with latitude 40 + 42/60 + 46/3600 and
\* longitude -(74 + 0/60 + 21/3600)
C9_Witness ==
    /\ pc = "coord_done"
    /\ full_text = CoordMentions[7]
    /\ Len(coords) = 1
    /\ coord_src[1].family = 2
    /\ coords[1].latitude = 366415000
    /\ coords[1].longitude = 0 - 666052500

\* C10: for the text "Site N: Name is located at LAT, LON. Excavated X-Y
\* BCE." the three extractors, run with the default context window, return
\* exactly one site record named "Site N: Name", exactly one coordinate
\* record with that same site_name, and exactly one date record, with
\* start_year = -X and end_year = -Y.
C10_ScenarioOneOfEach ==
    \A num \in ScenarioNums, name \in ScenarioNames,
       pair \in ScenarioPairs, range \in ScenarioRanges :
        (/\ pc = "done"
         /\ context_window = DefaultWindow
         /\ full_text = ScenarioText(num, name, pair, range)) =>
            /\ Len(sites) = 1
            /\ sites[1].site_name = SiteLabel(num, name)
            /\ Len(coords) = 1
            /\ coords[1].site_name = SiteLabel(num, name)
            /\ Len(dates) = 1
            /\ dates[1].start_year = 0 - ParseInt(range[1])
            /\ dates[1].end_year = 0 - ParseInt(range[2])

\* C16: a UTM mention never produces a CoordinateRecord: every record stems
\* from a match of one of the first three families, and each step of the UTM
\* pass of extract_coordinates leaves the result list and the set of seen
\* keys as the first three families left them; it only logs.
C16_UtmPassOnlyLogs ==
    /\ [](\A k \in 1..Len(coord_src) : coord_src[k].family \in 1..3)
    /\ [][pc = "coord_p4" =>
            /\ coords' = coords
            /\ seen_coords' = seen_coords
            /\ pending # <<>> => utm_log' = utm_log + 1]_vars

\* the text "40.50, 74.50 UTM Zone 43N 582639 4512345": the UTM mention
\* was logged and the only record is the one of the bare pair
C16_Witness ==
    /\ pc = "coord_done"
    /\ full_text = JoinMentions(CoordMentions, <<3, 12>>)
    /\ utm_log = 1
    /\ Len(coords) = 1
    /\ coord_src[1].family = 3

\* C20: in the list of extract_coordinates every family-1 record precedes
\* every family-2 record, which precedes every family-3 record, and the
\* records of one family are in text order; when an in-bounds bare-decimal
\* match and an in-bounds hemisphere-qualified match (family 1 or 2) have
\* the same rounded pair, the record of that pair is the one of a
\* hemisphere-qualified match, wherever the bare pair stands in the text.
C20_FamiliesInOrder ==
    /\ \A i, j \in 1..Len(coord_src) :
          i < j => \/ coord_src[i].family < coord_src[j].family
                   \/ /\ coord_src[i].family = coord_src[j].family
                      /\ coord_src[i].s < coord_src[j].s
    /\ pc = "coord_done" =>
          LET scan == LegalScan(full_text)
          IN \A a, b \in 1..Len(scan) :
                (/\ scan[a].family \in {1, 2}
                 /\ scan[b].family = 3
                 /\ RoundedPair(scan[a].v[1], scan[a].v[2])
                    = RoundedPair(scan[b].v[1], scan[b].v[2])) =>
                    /\ \E n \in 1..Len(coords) :
                          /\ coord_src[n].family \in {1, 2}
                          /\ RoundedPair(coords[n].latitude, coords[n].longitude)
                             = RoundedPair(scan[b].v[1], scan[b].v[2])
                    /\ \A n \in 1..Len(coords) :
                          coord_src[n] # [family |-> 3, s |-> scan[b].s]

\* the text "40.50, 74.50 40.5DEG N, 74.5DEG E": the bare pair stands
\* first, and the one record is the one of the later pair with directions
C20_Witness ==
    /\ pc = "coord_done"
    /\ full_text = JoinMentions(CoordMentions, <<3, 2>>)
    /\ Len(coords) = 1
    /\ coord_src[1].family = 1
    /\ coord_src[1].s > 1
    /\ LET scan == LegalScan(full_text)
       IN \E b \in 1..Len(scan) : scan[b].family = 3 /\ scan[b].s = 1

\* every match of extract_sites in scan order: pattern 1, pattern 2, then
\* Trench, Locus and Mound, each left to right
SiteScan(t) ==
    LET Tag(ms, p) == [k \in 1..Len(ms) |-> [pattern |-> p, s |-> ms[k].s,
                                              site_name |-> ms[k].site_name,
                                              site_type |-> ms[k].site_type]]
    IN Tag(site_pattern1_finditer(t, 1), "site_p1")
       \o Tag(site_pattern2_finditer(t, 1), "site_p2")
       \o Tag(trench_finditer(t, 1), "site_trench")
       \o Tag(locus_finditer(t, 1), "site_locus")
       \o Tag(mound_finditer(t, 1), "site_mound")

\* C13: no two records of extract_sites have the same site_name string, and
\* the record kept for a site_name is the one of the first match with that
\* name when all matches of pattern 1 are scanned, then all of pattern 2,
\* then Trench, then Locus, then Mound, each left to right.
C13_FirstOfEachSiteNameKept ==
    /\ \A i, j \in 1..Len(sites) : i < j => sites[i].site_name # sites[j].site_name
    /\ pc = "done" =>
          LET scan  == SiteScan(full_text)
              first == {k \in 1..Len(scan) :
                           \A h \in 1..(k - 1) : scan[h].site_name # scan[k].site_name}
              kept  == SelectSeq([k \in 1..Len(scan) |-> k], LAMBDA k : k \in first)
          IN /\ Len(sites) = Len(kept)
             /\ \A n \in 1..Len(kept) :
                   /\ site_src[n] = [pattern |-> scan[kept[n]].pattern,
                                     s |-> scan[kept[n]].s]
                   /\ sites[n].site_name = scan[kept[n]].site_name
                   /\ sites[n].site_type = scan[kept[n]].site_type

\* the text "Site 3: Mohenjo-daro. Site 3: Mohenjo-daro": two matches of
\* pattern 1 with one name, and the record is the one of the first
C13_Witness ==
    /\ pc = "done"
    /\ full_text = JoinMentions(SiteMentions, <<6, 1>>)
    /\ Len(SiteScan(full_text)) = 2
    /\ Len(sites) = 1
    /\ site_src[1] = [pattern |-> "site_p1", s |-> 1]

\* name is what the leftmost match of the highest-priority matching pattern
\* of snippet c gives, null when no pattern matches
HighestPriorityLeftmost(c, name) ==
    LET P1 == Pattern1Hits(c)
        P2 == Pattern2Hits(c)
        P3 == Pattern3Hits(c)
        P4 == Pattern4Hits(c)
        First(I, i) == i \in I /\ \A j \in I : i <= j
    IN \/ \E i \in P1 : First(P1, i) /\ name = context_pattern1(c, i).site_name
       \/ P1 = {} /\ \E i \in P2 : First(P2, i) /\ name = site_pattern2(c, i).site_name
       \/ P1 = {} /\ P2 = {}
          /\ \E i \in P3 : First(P3, i) /\ name = context_pattern3(c, i).site_name
       \/ P1 = {} /\ P2 = {} /\ P3 = {}
          /\ \E i \in P4 : First(P4, i) /\ name = mound_pattern(c, i).site_name
       \/ P1 = {} /\ P2 = {} /\ P3 = {} /\ P4 = {} /\ name = None

NoPatternMatches(c) ==
    Pattern1Hits(c) \cup Pattern2Hits(c) \cup Pattern3Hits(c) \cup Pattern4Hits(c) = {}

InferredFromOwnContext(r) ==
    /\ r.site_name = extract_site_name_from_context(r.context)
    /\ HighestPriorityLeftmost(r.context, r.site_name)
    /\ r.site_name = None <=> NoPatternMatches(r.context)

\* C14: the site_name of every CoordinateRecord and DateRecord of a returned
\* list is the site-name inference applied to the record's own context, and that
\* inference is the leftmost match of the highest-priority pattern that
\* matches anywhere in the snippet (pattern 1 before 2 before 3 before 4),
\* even when a lower-priority pattern matches earlier; it is null exactly
\* when none of the four patterns matches.
C14_InferencePriority ==
    /\ pc = "coord_done" => \A k \in 1..Len(coords) : InferredFromOwnContext(coords[k])
    /\ pc = "date_done" => \A k \in 1..Len(dates) : InferredFromOwnContext(dates[k])

\* the text "Trench T-5, near Site 3: Ur, at 40.50, 74.50": pattern 3
\* matches first in the context of the pair, and the name is the one of
\* pattern 1
C14_Witness ==
    /\ pc = "coord_done"
    /\ Len(coords) = 1
    /\ Pattern1Hits(coords[1].context) # {}
    /\ Pattern3Hits(coords[1].context) # {}
    /\ Leftmost(Pattern3Hits(coords[1].context)) < Leftmost(Pattern1Hits(coords[1].context))
    /\ coords[1].site_name = <<"S","i","t","e"," ","3",":"," ","U","r">>

\* C15: for every snippet, a non-null site-name inference equals the
\* site_name of some SiteRecord that extract_sites returns for that snippet
\* as its whole text, and the inference is null only when extract_sites
\* returns an empty list for it.
C15_InferenceAgreesWithSites ==
    pc = "done" =>
        LET inferred == extract_site_name_from_context(full_text)
        IN /\ inferred # None => \E k \in 1..Len(sites) : sites[k].site_name = inferred
           /\ inferred = None => sites = <<>>

\* C19: extract_coordinates supports both DMS layouts its docstring names:
\* the pair with trailing hemisphere letters, 40DEG42'46"N 74DEG00'21"W,
\* and the pair with leading hemisphere letters, N 35DEG42'12", E
\* 139DEG46'35", each yield one CoordinateRecord with the converted
\* decimal values (in units of 1/9000000 degree).
C19_BothDmsLayouts ==
    pc = "coord_done" =>
        /\ full_text = TrailingHemisphereDms =>
              /\ Len(coords) = 1
              /\ coords[1].latitude = 366415000
              /\ coords[1].longitude = 0 - 666052500
        /\ full_text = LeadingHemisphereDms =>
              /\ Len(coords) = 1
              /\ coords[1].latitude = 321330000
              /\ coords[1].longitude = 1257987500

\* no pattern of any family of the three extractors matches in t
NoMatchAnywhere(t) ==
    /\ decimal_with_dirs_finditer(t, 1) = <<>>
    /\ dms_pattern_finditer(t, 1) = <<>>
    /\ simple_decimal_finditer(t, 1) = <<>>
    /\ utm_pattern_finditer(t, 1) = <<>>
    /\ modern_range_finditer(t, 1) = <<>>
    /\ bce_range_finditer(t, 1) = <<>>
    /\ bce_single_finditer(t, 1) = <<>>
    /\ contextual_date_finditer(t, 1) = <<>>
    /\ year_finditer(t, 1) = <<>>
    /\ SiteScan(t) = <<>>

\* C11: when no pattern of any family matches the text, the three
\* extractors each return an empty list; and no extractor raises for a
\* non-empty text: an exception leaves an extractor only when the processor
\* holds no text and the file cannot be read.
C11_NoMatchNoError ==
    /\ pc = "raised" => full_text \in Missing /\ pdf = Unreadable
    /\ (pc = "done" /\ NoMatchAnywhere(full_text)) =>
          coords = <<>> /\ dates = <<>> /\ sites = <<>>

\* the three extractors have returned for a prose text in which nothing
\* matches
C11_Witness ==
    /\ pc = "done"
    /\ full_text \in ProseTexts
    /\ text_reads = 0
    /\ NoMatchAnywhere(full_text)
    /\ coords = <<>> /\ dates = <<>> /\ sites = <<>>

\* C17: when the processor holds no text (full_text is None or was never
\* supplied), each extractor fails fast with an error: a call that found the
\* text missing ends raised, it does not go on to scan and to return a list.
\* text_reads counts the calls that went past the check of the text.
C17_MissingTextFailsFast ==
    text_reads > 0 => pc = "raised"

\* C12: an extractor called a second time on the same processor, with the
\* same text and context_window, returns a list equal to the one of its
\* first call: same records, same order.
C12_RepeatedCallEqual ==
    run = "repeat" =>
        /\ (ref.who = "coord_done" /\ pc = "coord_done") => coords = ref.coords
        /\ (ref.who = "date_done" /\ pc = "date_done") => dates = ref.dates
        /\ (ref.who = "done" /\ pc = "done") => sites = ref.sites

\* extract_dates has returned a second time for the field report, on a
\* processor that had no text before the first extractor ran
C12_Witness ==
    /\ run = "repeat"
    /\ ref.who = "date_done" /\ pc = "date_done"
    /\ text_reads = 1
    /\ Len(ref.dates) >= 4
    /\ dates = ref.dates

RangeScan(t) == modern_range_finditer(t, 1) \o bce_range_finditer(t, 1)

YearScan(t) ==
    bce_single_finditer(t, 1) \o contextual_date_finditer(t, 1) \o year_finditer(t, 1)

\* C21: extract_dates runs its five families in the order modern range, BCE
\* range, single BCE year, contextual year, bare year: the records of its
\* list are in family order, so every range record precedes every
\* single-year record, and when it has returned no record comes from a
\* single-year match whose year lies inside the normalized pair of a range
\* match of the text, whether that single year stands before or after the
\* range in the text.  (A list without single-year records has nothing to
\* compare, so the text is scanned only when the list holds one.)
C21_RangesBeforeYears ==
    /\ [](\A i, j \in 1..Len(date_src) :
            i < j => date_src[i].family <= date_src[j].family)
    /\ []((pc = "date_done" /\ \E n \in 1..Len(date_src) : date_src[n].family >= 3) =>
            LET ranges == RangeScan(full_text)
                years  == YearScan(full_text)
            IN \A a \in 1..Len(ranges), b \in 1..Len(years) :
                  (/\ NormalizedPair(ranges[a])[1] <= CandidateYear(years[b])
                   /\ CandidateYear(years[b]) <= NormalizedPair(ranges[a])[2]) =>
                      \A n \in 1..Len(dates) :
                          date_src[n] # [family |-> years[b].family, s |-> years[b].s])

\* the text "1999 1998 to 2002": the bare year stands first in the text, and
\* the one record returned is the range that holds it
C21_Witness ==
    /\ pc = "date_done"
    /\ full_text = JoinMentions(DateMentions, <<9, 1>>)
    /\ Len(dates) = 1
    /\ date_src[1].family = 1
    /\ dates[1].start_year = 1998 /\ dates[1].end_year = 2002
    /\ LET years == YearScan(full_text)
       IN \E b \in 1..Len(years) : years[b].family = 5 /\ years[b].s < date_src[1].s

\* the converted value of the match a coordinate loop is about to process
HeadValue ==
    CASE pc = "coord_p1" -> DecimalWithDirsValue(Head(pending))
      [] pc = "coord_p2" -> DmsValue(Head(pending))
      [] pc = "coord_p3" -> SimpleDecimalValue(Head(pending))

\* C22: a coordinate match whose converted value is out of bounds leaves
\* the result list and the seen-key set as they are and the loop goes on
\* with the next match of the same pattern; the seen-key set holds the keys
\* of the records and no others, so a rejected match never stands in the
\* way of a later one, and when extract_coordinates has returned every
\* in-bounds match of the text, whatever rejected matches precede it, has
\* its rounded pair in the list.
C22_RejectedMatchLeavesNoTrace ==
    /\ [](seen_coords = {RoundedPair(coords[k].latitude, coords[k].longitude) :
                            k \in 1..Len(coords)})
    /\ [](pc = "coord_done" =>
            LET scan == LegalScan(full_text)
            IN \A b \in 1..Len(scan) :
                  \E n \in 1..Len(coords) :
                     RoundedPair(coords[n].latitude, coords[n].longitude)
                     = RoundedPair(scan[b].v[1], scan[b].v[2]))
    /\ [][(pc \in {"coord_p1", "coord_p2", "coord_p3"} /\ pending # <<>>
           /\ ~(LegalLat(HeadValue[1]) /\ LegalLon(HeadValue[2]))) =>
             /\ coords' = coords
             /\ seen_coords' = seen_coords
             /\ pc' = pc
             /\ pending' = Tail(pending)]_vars

\* the text "95.5 N, 10.5 E 40.5DEG N, 74.5DEG E": the first match of
\* pattern 1 is out of bounds, and the one record is the one of the second
C22_Witness ==
    /\ pc = "coord_done"
    /\ full_text = JoinMentions(CoordMentions, <<5, 2>>)
    /\ Len(coords) = 1
    /\ coord_src[1].family = 1
    /\ coord_src[1].s > 1
    /\ LET scan == CoordScan(full_text)
       IN /\ scan[1].family = 1 /\ scan[1].s = 1
          /\ ~LegalLat(scan[1].v[1])

\* c is the window of w characters around match m of text t: the characters
\* of t from position a + 1 on, each newline read as a space, where the
\* positions of the window before a + 1 and after a + Len(c) hold
\* whitespace only and the window is cut at the ends of the text
IsWindowOf(c, t, m, w) ==
    LET lo == Max(0, m.s - 1 - w)
        hi == Min(Len(t), m.e - 1 + w)
    IN /\ \A k \in 1..Len(c) : c[k] # "\n"
       /\ c # <<>> => c[1] \notin Space /\ c[Len(c)] \notin Space
       /\ Len(c) <= (m.e - m.s) + 2 * w
       /\ \E a \in lo..hi :
             /\ a + Len(c) <= hi
             /\ \A k \in 1..Len(c) : c[k] = IF t[a + k] = "\n" THEN " " ELSE t[a + k]
             /\ \A k \in (lo + 1)..a : t[k] \in Space
             /\ \A k \in (a + Len(c) + 1)..hi : t[k] \in Space

\* C23: the context of a record is the text from context_window characters
\* before its match to context_window characters after it, cut at the ends
\* of the text, with every newline replaced by a space and the whitespace
\* at both ends removed: it holds no newline, neither starts nor ends with
\* whitespace and is at most match length + 2 * context_window long.
\* extract_sites does the same with the window 100.
C23_ContextIsTrimmedWindow ==
    /\ [](/\ \A n \in 1..Len(coords) : \A k \in 1..Len(coords[n].context) :
                coords[n].context[k] # "\n"
          /\ \A n \in 1..Len(dates) : \A k \in 1..Len(dates[n].context) :
                dates[n].context[k] # "\n"
          /\ \A n \in 1..Len(sites) : \A k \in 1..Len(sites[n].context) :
                sites[n].context[k] # "\n")
    /\ [][/\ Len(coords') = Len(coords) + 1 =>
                IsWindowOf(coords'[Len(coords')].context, full_text,
                           Head(pending), context_window)
          /\ Len(dates') = Len(dates) + 1 =>
                IsWindowOf(dates'[Len(dates')].context, full_text,
                           Head(pending), context_window)
          /\ Len(sites') = Len(sites) + 1 =>
                IsWindowOf(sites'[Len(sites')].context, full_text,
                           Head(pending), 100)]_vars

\* the one-page document of the field report, read from its file, with the
\* default window: the context of the first coordinate record starts at the
\* page header, the two newlines after the header stand in it as spaces,
\* and it ends before the end of the text
C23_Witness ==
    /\ pc = "coord_done"
    /\ text_reads = 1
    /\ context_window = DefaultWindow
    /\ full_text = extract_text(<<FieldReport>>)
    /\ coords # <<>>
    /\ SubSeq(coords[1].context, 1, 16)
       = <<"-","-","-"," ","P","a","g","e"," ","1"," ","-","-","-"," "," ">>
    /\ Len(coords[1].context) < Len(full_text) - 2

\* the bare-year match m of text t stands one space after or one space
\* before a run of six or more digits
BesideLongNumber(t, m) ==
    \/ /\ At(t, m.s - 1) = " "
       /\ \A k \in 2..7 : At(t, m.s - k) \in Digit
    \/ /\ At(t, m.e) = " "
       /\ RunIn(t, m.e + 1, Digit) >= 6

\* the bare-year match m of text t has the literal UTM or Zone within the
\* five characters before it or the five characters after it
BesideUtmOrZone(t, m) ==
    \E j \in (m.s - 5)..(m.e + 4) :
        \/ StartsWith(t, j, <<"U","T","M">>) /\ (j + 3 <= m.s \/ j >= m.e)
        \/ StartsWith(t, j, <<"Z","o","n","e">>) /\ (j + 4 <= m.s \/ j >= m.e)

\* C24: when extract_dates has returned, no record comes from a bare-year
\* match that stands one space from a number of six or more digits, nor
\* from one with the literal UTM or Zone within five characters of it.
C24_NoYearBesideCoordinateDigits ==
    pc = "date_done" =>
        LET years == year_finditer(full_text, 1)
        IN \A b \in 1..Len(years) :
              (BesideLongNumber(full_text, years[b])
               \/ BesideUtmOrZone(full_text, years[b])) =>
                 \A n \in 1..Len(dates) :
                    date_src[n] # [family |-> 5, s |-> years[b].s]

\* C25: every record of the bare-decimal-pair family stands for two numbers
\* taken whole from the text: no digit stands directly before the latitude
\* matched and none directly after the longitude matched, so a number with
\* more integer or more fractional digits than the pattern allows is never
\* emitted cut short.
C25_BarePairsAreWholeNumbers ==
    pc = "coord_done" =>
        \A n \in 1..Len(coords) :
            coord_src[n].family = 3 =>
                LET m == simple_decimal(full_text, coord_src[n].s)
                IN /\ At(full_text, m.s - 1) \notin Digit
                   /\ At(full_text, m.e) \notin Digit

\* the match a date record was made from, found again by family and start
DateMatchAt(t, src) ==
    CASE src.family = 1 -> modern_range_pattern(t, src.s)
      [] src.family = 2 -> bce_range_pattern(t, src.s)
      [] src.family = 3 -> bce_single_pattern(t, src.s)
      [] src.family = 4 -> contextual_date_pattern(t, src.s)
      [] src.family = 5 -> year_pattern(t, src.s)

\* the BCE-marked spans of a text: the matches of the BCE range and of the
\* single BCE year pattern
BceScan(t) == bce_range_finditer(t, 1) \o bce_single_finditer(t, 1)

\* C26: when extract_dates has returned, every record made from a match
\* that shares characters with a BCE-marked span of the text has
\* start_year <= end_year <= 0: the digits of a BCE range or of a single BCE
\* year are never returned as a CE range or a CE year.
C26_BceDigitsNeverCe ==
    pc = "date_done" =>
        LET spans == BceScan(full_text)
        IN \A n \in 1..Len(dates), b \in 1..Len(spans) :
              LET m == DateMatchAt(full_text, date_src[n])
              IN (m.s < spans[b].e /\ spans[b].s < m.e) =>
                    /\ dates[n].start_year <= dates[n].end_year
                    /\ dates[n].end_year <= 0

\* the hemisphere letters of the match a coordinate record was made from
HemisphereLetters(t, src) ==
    IF src.family = 1
    THEN LET m == decimal_with_dirs(t, src.s) IN <<ToUpper(m.lat_dir), ToUpper(m.lon_dir)>>
    ELSE LET m == dms_pattern(t, src.s) IN <<ToUpper(m.lat_dir), ToUpper(m.lon_dir)>>

\* C27: every record of the decimal-with-direction and of the DMS family
\* has latitude <= 0 when the hemisphere letter of its match is S and >= 0
\* when it is N, and longitude <= 0 when the letter is W and >= 0 when it
\* is E, also when the number is written with a minus sign.
C27_HemisphereDecidesSign ==
    \A n \in 1..Len(coords) :
        coord_src[n].family \in {1, 2} =>
            LET dirs == HemisphereLetters(full_text, coord_src[n])
            IN /\ dirs[1] = "S" => coords[n].latitude <= 0
               /\ dirs[1] = "N" => coords[n].latitude >= 0
               /\ dirs[2] = "W" => coords[n].longitude <= 0
               /\ dirs[2] = "E" => coords[n].longitude >= 0

\* C28: chunk_text terminates for every text and 0 <= chunk_overlap <
\* chunk_size: every turn of its loop that is followed by another one
\* leaves start greater than it was, so that the loop, which starts at 0
\* and runs while start is inside the text, takes no more turns and makes
\* no more chunks than the text has characters.
C28_ChunkTextTerminates ==
    /\ [](Len(chunks) <= Len(text))
    /\ [][(pc = "chunk_loop" /\ pc' = "chunk_loop") => start' > start]_vars

\* C29: when chunk_text has returned, every position of the text that holds
\* a character other than whitespace lies inside the slice of at least one
\* returned chunk, and no chunk is longer than chunk_size.
C29_NoTextLost ==
    pc = "ready" =>
        /\ \A i \in 1..Len(text) :
              text[i] \notin Space =>
                 \E n \in 1..Len(chunk_src) : chunk_src[n].lo < i /\ i <= chunk_src[n].hi
        /\ \A n \in 1..Len(text_chunks) : Len(text_chunks[n]) <= chunk_size

\* process has returned and the caller is at or inside the extractor calls
Processed == pc \notin {"process", "chunk_call", "chunk_loop", "chunk_exit", "raised"}

\* C30: once process has returned, the extractors read the text kept in
\* full_text: no step of theirs calls extract_text again, and none changes
\* full_text or text_chunks, whatever text the file gave, a file without
\* extractable text included.
C30_ExtractorsReuseCachedText ==
    [][Processed => /\ text_reads' = text_reads
                    /\ full_text' = full_text
                    /\ text_chunks' = text_chunks]_vars

====
